---------------------------- MODULE Spec2Model ----------------------------
(***************************************************************************)
(* A model of the morsewalker audio engine and of the handlers that drive  *)
(* it: the Morse scheduler and the audio lock (audio.js), the background   *)
(* static channel (audio.js), and the CQ / Send / TU / stop / reset        *)
(* handlers (app.js, util.js).                                             *)
(*                                                                         *)
(* Times are integers, in ticks of 10 ms (TicksPerSecond ticks a second).  *)
(* Strings are sequences of one-character strings.                         *)
(***************************************************************************)
EXTENDS Integers, Sequences, FiniteSets, TLC

(***************************************************************************)
(* Bounds of the model.                                                    *)
(***************************************************************************)
MaxTime == 1500        \* the time followed after the page is loaded, in ticks
NoiseTime == 1500      \* the same, where the static channel is followed
TickStep == 500        \* the learner acts at multiples of this
MaxAttempts == 2       \* attempts counted for one station
MaxContacts == 1       \* contacts counted
MaxFetches == 2        \* fetches of the static asset in flight at once
MaxTimers == 2         \* fade-out timeouts pending at once
MaxSources == 2        \* static sources connected at once
MaxLen == 3            \* characters of a sentence drawn from Alphabet
MaxContexts == 2       \* audio contexts created in one run

TicksPerSecond == 100

NULL == 0              \* null for node references and station references

Max(a, b) == IF a > b THEN a ELSE b
Min(a, b) == IF a < b THEN a ELSE b

(***************************************************************************)
(* The audio lock.                                                         *)
(***************************************************************************)
\* updateAudioLock as it would be if it kept the first end time it is given.
updateAudioLock_keepsFirst(lockUntil, time) ==
  IF lockUntil = 0 THEN time ELSE lockUntil

\* updateAudioLock as it would be without its comparison.
updateAudioLock_overwrites(lockUntil, time) == time

\* audio.js updateAudioLock: the new value of audioLockUntil.
updateAudioLock(lockUntil, time) ==
  IF time > lockUntil THEN time ELSE lockUntil

\* getAudioLock as it would be if the lock were never consulted.
getAudioLock_never(currentTime, lockUntil) == FALSE

\* audio.js getAudioLock
getAudioLock(currentTime, lockUntil) == currentTime < lockUntil


(***************************************************************************)
(* The Morse scheduler of one player (createMorsePlayer).                  *)
(***************************************************************************)

\* audio.js morseCodeMap: token (lower case) -> its dots and dashes.
morseCodeMap ==
     (<<"a">> :> <<".", "-">>)
  @@ (<<"b">> :> <<"-", ".", ".", ".">>)
  @@ (<<"c">> :> <<"-", ".", "-", ".">>)
  @@ (<<"d">> :> <<"-", ".", ".">>)
  @@ (<<"e">> :> <<".">>)
  @@ (<<"f">> :> <<".", ".", "-", ".">>)
  @@ (<<"g">> :> <<"-", "-", ".">>)
  @@ (<<"h">> :> <<".", ".", ".", ".">>)
  @@ (<<"i">> :> <<".", ".">>)
  @@ (<<"j">> :> <<".", "-", "-", "-">>)
  @@ (<<"k">> :> <<"-", ".", "-">>)
  @@ (<<"l">> :> <<".", "-", ".", ".">>)
  @@ (<<"m">> :> <<"-", "-">>)
  @@ (<<"n">> :> <<"-", ".">>)
  @@ (<<"o">> :> <<"-", "-", "-">>)
  @@ (<<"p">> :> <<".", "-", "-", ".">>)
  @@ (<<"q">> :> <<"-", "-", ".", "-">>)
  @@ (<<"r">> :> <<".", "-", ".">>)
  @@ (<<"s">> :> <<".", ".", ".">>)
  @@ (<<"t">> :> <<"-">>)
  @@ (<<"u">> :> <<".", ".", "-">>)
  @@ (<<"v">> :> <<".", ".", ".", "-">>)
  @@ (<<"w">> :> <<".", "-", "-">>)
  @@ (<<"x">> :> <<"-", ".", ".", "-">>)
  @@ (<<"y">> :> <<"-", ".", "-", "-">>)
  @@ (<<"z">> :> <<"-", "-", ".", ".">>)
  @@ (<<"0">> :> <<"-", "-", "-", "-", "-">>)
  @@ (<<"1">> :> <<".", "-", "-", "-", "-">>)
  @@ (<<"2">> :> <<".", ".", "-", "-", "-">>)
  @@ (<<"3">> :> <<".", ".", ".", "-", "-">>)
  @@ (<<"4">> :> <<".", ".", ".", ".", "-">>)
  @@ (<<"5">> :> <<".", ".", ".", ".", ".">>)
  @@ (<<"6">> :> <<"-", ".", ".", ".", ".">>)
  @@ (<<"7">> :> <<"-", "-", ".", ".", ".">>)
  @@ (<<"8">> :> <<"-", "-", "-", ".", ".">>)
  @@ (<<"9">> :> <<"-", "-", "-", "-", ".">>)
  @@ (<<".">> :> <<".", "-", ".", "-", ".", "-">>)
  @@ (<<",">> :> <<"-", "-", ".", ".", "-", "-">>)
  @@ (<<"?">> :> <<".", ".", "-", "-", ".", ".">>)
  @@ (<<"/">> :> <<"-", ".", ".", "-", ".">>)
  @@ (<<"<", "b", "k", ">">> :> <<"-", ".", ".", ".", "-", ".", "-">>)
  @@ (<<"<", "a", "r", ">">> :> <<".", "-", ".", "-", ".">>)
  @@ (<<"<", "s", "k", ">">> :> <<".", ".", ".", "-", ".", "-">>)
  @@ (<<"<", "k", "n", ">">> :> <<"-", ".", "-", "-", ".">>)
  @@ (<<"<", "b", "t", ">">> :> <<"-", ".", ".", ".", "-">>)

\* String.prototype.toLowerCase on one character.
lowerCaseMap ==
     ("A" :> "a")
  @@ ("B" :> "b")
  @@ ("C" :> "c")
  @@ ("D" :> "d")
  @@ ("E" :> "e")
  @@ ("F" :> "f")
  @@ ("G" :> "g")
  @@ ("H" :> "h")
  @@ ("I" :> "i")
  @@ ("J" :> "j")
  @@ ("K" :> "k")
  @@ ("L" :> "l")
  @@ ("M" :> "m")
  @@ ("N" :> "n")
  @@ ("O" :> "o")
  @@ ("P" :> "p")
  @@ ("Q" :> "q")
  @@ ("R" :> "r")
  @@ ("S" :> "s")
  @@ ("T" :> "t")
  @@ ("U" :> "u")
  @@ ("V" :> "v")
  @@ ("W" :> "w")
  @@ ("X" :> "x")
  @@ ("Y" :> "y")
  @@ ("Z" :> "z")

toLowerCase(token) ==
  [i \in 1..Len(token) |->
     IF token[i] \in DOMAIN lowerCaseMap THEN lowerCaseMap[token[i]] ELSE token[i]]

\* text.lastIndexOf('>') in the place of text.indexOf('>', i).
indexOfClose_last(text, i) ==
  LET hits == {j \in i..Len(text) : text[j] = ">"}
  IN  IF hits = {} THEN 0 ELSE CHOOSE j \in hits : \A k \in hits : j >= k

\* text.indexOf('>', i): the first position >= i holding '>', or 0 when there is
\* none (positions are 1-based here, so 0 stands for JavaScript's -1).
indexOfClose(text, i) ==
  LET hits == {j \in i..Len(text) : text[j] = ">"}
  IN  IF hits = {} THEN 0 ELSE CHOOSE j \in hits : \A k \in hits : j <= k

\* tokenize, were a prosign pushed without its brackets.
tokenize_bare(text) ==
  LET rest[i \in 1..(Len(text) + 1)] ==
        IF i > Len(text) THEN <<>>
        ELSE IF text[i] = "<"
             THEN LET endIndex == indexOfClose(text, i)
                  IN  IF endIndex # 0
                      THEN <<SubSeq(text, i + 1, endIndex - 1)>> \o rest[endIndex + 1]
                      ELSE <<(<<text[i]>>)>> \o rest[i + 1]
             ELSE <<(<<text[i]>>)>> \o rest[i + 1]
  IN  rest[1]

\* audio.js tokenize; rest[i] is what the loop pushes from position i on.
tokenize(text) ==
  LET rest[i \in 1..(Len(text) + 1)] ==
        IF i > Len(text) THEN <<>>
        ELSE IF text[i] = "<"
             THEN LET endIndex == indexOfClose(text, i)
                  IN  IF endIndex # 0
                      THEN <<SubSeq(text, i, endIndex)>> \o rest[endIndex + 1]
                      ELSE <<(<<text[i]>>)>> \o rest[i + 1]
             ELSE <<(<<text[i]>>)>> \o rest[i + 1]
  IN  rest[1]

\* 1.2 / wpm seconds, in ticks.
unitOf(wpm) == (12 * TicksPerSecond) \div (10 * wpm)

\* station.farnsworthSpeed || station.wpm
farnsworthSpeedOf(station) ==
  IF station.farnsworthSpeed = NULL THEN station.wpm ELSE station.farnsworthSpeed

\* createMorsePlayer, were the symbols timed at the Farnsworth speed too.
timingOf_farnsworthSymbols(station) ==
  LET CHAR_UNIT == unitOf(station.wpm)
      FARNS_UNIT == unitOf(farnsworthSpeedOf(station))
      UNIT == IF station.enableFarnsworth THEN FARNS_UNIT ELSE CHAR_UNIT
  IN  [DOT_TIME |-> UNIT,
       DASH_TIME |-> UNIT * 3,
       SYMBOL_SPACE |-> UNIT,
       LETTER_SPACE |-> UNIT * 3,
       WORD_SPACE |-> UNIT * 7]

\* createMorsePlayer, were the Farnsworth setting ignored.
timingOf_noFarnsworth(station) ==
  LET CHAR_UNIT == unitOf(station.wpm)
  IN  [DOT_TIME |-> CHAR_UNIT,
       DASH_TIME |-> CHAR_UNIT * 3,
       SYMBOL_SPACE |-> CHAR_UNIT,
       LETTER_SPACE |-> CHAR_UNIT * 3,
       WORD_SPACE |-> CHAR_UNIT * 7]

\* The timing constants createMorsePlayer computes once for the player.
timingOf(station) ==
  LET CHAR_UNIT == unitOf(station.wpm)
      FARNS_UNIT == unitOf(farnsworthSpeedOf(station))
  IN  [DOT_TIME |-> CHAR_UNIT,
       DASH_TIME |-> CHAR_UNIT * 3,
       SYMBOL_SPACE |-> CHAR_UNIT,
       LETTER_SPACE |-> IF station.enableFarnsworth THEN FARNS_UNIT * 3
                        ELSE CHAR_UNIT * 3,
       WORD_SPACE |-> IF station.enableFarnsworth THEN FARNS_UNIT * 7
                      ELSE CHAR_UNIT * 7]

\* audio.js playSymbol: the time after the symbol.
playSymbol(tm, symbol, time) ==
  time + (IF symbol = "-" THEN tm.DASH_TIME ELSE tm.DOT_TIME)

\* audio.js playCode, were the symbol space after the last symbol kept.
playCode_keepsLastSpace(tm, code, time) ==
  LET step[i \in 1..Len(code), t \in Int] ==
        IF code[i] = "." \/ code[i] = "-"
        THEN playSymbol(tm, code[i], t) + tm.SYMBOL_SPACE
        ELSE t
      at[i \in 0..Len(code)] ==
        IF i = 0 THEN time ELSE step[i, at[i - 1]]
  IN  at[Len(code)] + tm.LETTER_SPACE

\* audio.js playCode; at[i] is the time after the first i symbols.
playCode(tm, code, time) ==
  LET step[i \in 1..Len(code), t \in Int] ==
        IF code[i] = "." \/ code[i] = "-"
        THEN playSymbol(tm, code[i], t) + tm.SYMBOL_SPACE
        ELSE t
      at[i \in 0..Len(code)] ==
        IF i = 0 THEN time ELSE step[i, at[i - 1]]
  IN  at[Len(code)] + (tm.LETTER_SPACE - tm.SYMBOL_SPACE)

\* audio.js playToken, were a token without code given the time of a letter
\* space.
playToken_unknownAdvances(tm, token, time) ==
  IF token = <<" ">>
  THEN time + (tm.WORD_SPACE - tm.LETTER_SPACE)
  ELSE IF toLowerCase(token) \in DOMAIN morseCodeMap
       THEN playCode(tm, morseCodeMap[toLowerCase(token)], time)
       ELSE time + tm.LETTER_SPACE

\* audio.js playToken
playToken(tm, token, time) ==
  IF token = <<" ">>
  THEN time + (tm.WORD_SPACE - tm.LETTER_SPACE)
  ELSE IF toLowerCase(token) \in DOMAIN morseCodeMap
       THEN playCode(tm, morseCodeMap[toLowerCase(token)], time)
       ELSE time

\* audio.js playSentence: the end time of the sentence; at[i] is the time
\* after the first i tokens.
playSentence(tm, sentence, startTime) ==
  LET tokens == tokenize(sentence)
      step[i \in 1..Len(tokens), time \in Int] ==
        playToken(tm, tokens[i], time)
      at[i \in 0..Len(tokens)] ==
        IF i = 0 THEN startTime ELSE step[i, at[i - 1]]
  IN  at[Len(tokens)]

\* Whether playToken finds the token in morseCodeMap.
recognized(token) == toLowerCase(token) \in DOMAIN morseCodeMap

\* audio.js playCode: the envelopes playSymbol schedules on the gain node, each
\* from its first gain event to its ramp down; at[i] is the time after the
\* first i symbols and their spaces.
codeSegments(tm, code, time) ==
  LET at[i \in 0..Len(code)] ==
        IF i = 0 THEN time
        ELSE playSymbol(tm, code[i], at[i - 1]) + tm.SYMBOL_SPACE
  IN  [i \in 1..Len(code) |->
         [start |-> at[i - 1], stop |-> playSymbol(tm, code[i], at[i - 1])]]

\* audio.js playCode: the values its variable time takes, after each symbol and
\* at its return.
codeCursors(tm, code, time) ==
  LET at[i \in 0..Len(code)] ==
        IF i = 0 THEN time
        ELSE playSymbol(tm, code[i], at[i - 1]) + tm.SYMBOL_SPACE
  IN  [i \in 1..(Len(code) + 1) |->
         IF i <= Len(code) THEN at[i]
         ELSE at[Len(code)] + (tm.LETTER_SPACE - tm.SYMBOL_SPACE)]

\* audio.js playToken: the envelopes it schedules.
tokenSegments(tm, token, time) ==
  IF token # <<" ">> /\ recognized(token)
  THEN codeSegments(tm, morseCodeMap[toLowerCase(token)], time)
  ELSE <<>>

\* audio.js playToken: the values the time takes during the token.
tokenCursors(tm, token, time) ==
  IF token = <<" ">> THEN <<playToken(tm, token, time)>>
  ELSE IF recognized(token)
       THEN codeCursors(tm, morseCodeMap[toLowerCase(token)], time)
       ELSE <<>>

\* audio.js playSentence, its loop over the tokens: the time it returns, the
\* tokens, the envelopes scheduled, the values of its time and the tokens
\* console.warn reported; at[i] is the time after the first i tokens.
scheduleTokens(tm, tokens, startTime) ==
  LET step[i \in 1..Len(tokens), time \in Int] ==
        playToken(tm, tokens[i], time)
      at[i \in 0..Len(tokens)] ==
        IF i = 0 THEN startTime ELSE step[i, at[i - 1]]
      segments[i \in 0..Len(tokens)] ==
        IF i = 0 THEN <<>>
        ELSE segments[i - 1] \o tokenSegments(tm, tokens[i], at[i - 1])
      cursors[i \in 0..Len(tokens)] ==
        IF i = 0 THEN <<startTime>>
        ELSE cursors[i - 1] \o tokenCursors(tm, tokens[i], at[i - 1])
      unrecognized(token) == token # <<" ">> /\ ~recognized(token)
  IN  [tokens |-> tokens,
       time |-> at[Len(tokens)],
       segments |-> segments[Len(tokens)],
       cursors |-> cursors[Len(tokens)],
       warned |-> SelectSeq(tokens, unrecognized)]

\* audio.js playSentence with all it leaves behind.
schedule(tm, sentence, startTime) ==
  scheduleTokens(tm, tokenize(sentence), startTime)

(***************************************************************************)
(* The state of the program.                                               *)
(***************************************************************************)
VARIABLES
  now,                     \* audioContext.currentTime of the current context
  contexts,                \* the audio contexts created so far
  audioLockUntil,          \* audio.js audioLockUntil
  backgroundStaticSource,  \* audio.js: NULL or the static source node
  staticGain,              \* audio.js: NULL or the gain node of that source
  fetches,                 \* fetch/decode chains of the static asset in flight
  fadeTimers,              \* setTimeout callbacks of fade-out stops pending
  sources,                 \* the static source nodes connected to the output
  currentMode,             \* app.js currentMode
  inputsValid,             \* whether the form validates (what getInputs sees)
  qrn,                     \* the QRN level selected in the form
  inputs,                  \* app.js inputs: "null" or "set"
  currentStations,         \* app.js: the active stations (references)
  currentStation,          \* app.js: the active station of single mode
  activeStationIndex,      \* app.js: NULL or a 1-based index
  readyForTU,
  currentStationAttempts,
  totalContacts,
  yourStation,
  lastRespondingStations,
  heap,                    \* the station objects, by reference
  cqButtonDisabled,
  resultsTable,            \* the rows of the results table, newest first
  lastOp,                  \* history: the handler or callback that ran last
  refused,                 \* history: that handler returned at its lock check
  thrown,                  \* history: that handler ended by a TypeError
  calls,                   \* history: the playSentence calls it made
  yourBusyUntil,           \* history: end of the learner's earlier sentences
  elapsed,                 \* history: the time since the page was loaded
  profile,                 \* the station a player under study was created for
  script,                  \* the sentence given to its playSentence
  origin,                  \* the startTime given to its playSentence
  played                   \* what that playSentence call scheduled and returned

audioVars == <<now, contexts, audioLockUntil, backgroundStaticSource, staticGain, fetches,
               fadeTimers, sources>>
appVars == <<currentMode, inputsValid, qrn, inputs, currentStations,
             currentStation, activeStationIndex, readyForTU,
             currentStationAttempts, totalContacts, yourStation,
             lastRespondingStations, heap, cqButtonDisabled, resultsTable>>
historyVars == <<lastOp, refused, thrown, calls, yourBusyUntil, elapsed>>
morseVars == <<profile, script, origin, played>>
vars == <<audioVars, appVars, historyVars, morseVars>>

\* The program state as one record, so that a handler is a composition of the
\* functions it calls.
State ==
  [now |-> now, contexts |-> contexts, audioLockUntil |-> audioLockUntil,
   backgroundStaticSource |-> backgroundStaticSource, staticGain |-> staticGain,
   fetches |-> fetches, fadeTimers |-> fadeTimers, sources |-> sources,
   currentMode |-> currentMode, inputsValid |-> inputsValid, qrn |-> qrn,
   inputs |-> inputs, currentStations |-> currentStations,
   currentStation |-> currentStation, activeStationIndex |-> activeStationIndex,
   readyForTU |-> readyForTU, currentStationAttempts |-> currentStationAttempts,
   totalContacts |-> totalContacts, yourStation |-> yourStation,
   lastRespondingStations |-> lastRespondingStations, heap |-> heap,
   cqButtonDisabled |-> cqButtonDisabled, resultsTable |-> resultsTable,
   refused |-> FALSE, thrown |-> FALSE, calls |-> <<>>, ret |-> 0]

(***************************************************************************)
(* The background static channel.                                          *)
(***************************************************************************)
\* The source nodes of the static: a reference is a place in `sources`.
SourceIds == 1..MaxSources
NoSource == [kind |-> "free"]

\* staticGainValues[selectedQRN] || 1.0, in hundredths.
staticGainValue(selectedQRN) ==
  CASE selectedQRN = "normal" -> 75
    [] selectedQRN = "moderate" -> 150
    [] selectedQRN = "heavy" -> 300
    [] OTHER -> 100

\* audio.js createBackgroundStatic, up to the start of the fetch.
createBackgroundStatic(s) ==
  IF s.backgroundStaticSource # NULL THEN s
  ELSE IF ~s.inputsValid THEN s
  ELSE IF s.qrn = "off" THEN s
  ELSE [s EXCEPT !.fetches = Append(@, [qrn |-> s.qrn, stopRequested |-> FALSE])]

\* A reference for a new source node, NULL when the model has no room for it.
newSource(s) ==
  IF \E id \in SourceIds : s.sources[id] = NoSource
  THEN CHOOSE id \in SourceIds :
         /\ s.sources[id] = NoSource
         /\ \A other \in SourceIds : s.sources[other] = NoSource => id <= other
  ELSE NULL

\* The catch callback of a chain that lets its error go on to the page.
staticFailed_uncaught(s, i) ==
  [s EXCEPT !.fetches = SubSeq(@, 1, i - 1) \o SubSeq(@, i + 1, Len(@)),
            !.thrown = TRUE]

\* audio.js createBackgroundStatic, the catch callback of the chain i in
\* flight: console.error, and the chain is over.
staticFailed(s, i) ==
  [s EXCEPT !.fetches = SubSeq(@, 1, i - 1) \o SubSeq(@, i + 1, Len(@))]

\* audio.js createBackgroundStatic, the callback run when fetch and decode of
\* chain f have succeeded: a new source and gain node, connected and started.
staticLoaded(s, f) ==
  [s EXCEPT
     !.sources[newSource(s)] =
        [kind |-> "source", gain |-> staticGainValue(f.qrn),
         started |-> 1, stopped |-> 0, disconnected |-> 0,
         fading |-> FALSE, afterStop |-> f.stopRequested],
     !.backgroundStaticSource = newSource(s),
     !.staticGain = newSource(s)]

\* history: a stop was requested while these fetches were in flight.
markStopRequested(fs) ==
  [i \in 1..Len(fs) |-> [fs[i] EXCEPT !.stopRequested = TRUE]]

\* audio.js stopBackgroundStatic: the gain ramp and the lock, when there is a
\* gain node.
fadeOut(s, fadeTime) ==
  IF s.staticGain # NULL
  THEN [s EXCEPT !.sources[s.staticGain].fading = TRUE,
                 !.audioLockUntil = updateAudioLock(@, s.now + fadeTime)]
  ELSE s

\* backgroundStaticSource.stop(); backgroundStaticSource.disconnect()
stopSource(s) ==
  IF s.backgroundStaticSource # NULL
  THEN [s EXCEPT !.sources[s.backgroundStaticSource].stopped = @ + 1,
                 !.sources[s.backgroundStaticSource].disconnected = @ + 1]
  ELSE s

\* backgroundStaticSource = null; staticGain = null
forgetSource(s) ==
  [s EXCEPT !.backgroundStaticSource = NULL, !.staticGain = NULL]

\* audio.js stopBackgroundStatic
stopBackgroundStatic(s, noFade) ==
  IF s.backgroundStaticSource = NULL
  THEN [s EXCEPT !.fetches = markStopRequested(@)]
  ELSE IF noFade
       THEN forgetSource(stopSource(
              fadeOut([s EXCEPT !.fetches = markStopRequested(@)], 0)))
       ELSE [fadeOut([s EXCEPT !.fetches = markStopRequested(@)],
                     1 * TicksPerSecond)
               EXCEPT !.fadeTimers = @ + 1]

\* audio.js stopBackgroundStatic, the setTimeout callback of a fade-out stop.
fadeTimeout(s) ==
  [forgetSource(stopSource(s)) EXCEPT !.fadeTimers = @ - 1]

\* audio.js isBackgroundStaticPlaying
isBackgroundStaticPlaying(s) == s.backgroundStaticSource # NULL

\* audio.js updateStaticIntensity
updateStaticIntensity(s) ==
  IF isBackgroundStaticPlaying(s)
  THEN createBackgroundStatic(stopBackgroundStatic(s, TRUE))
  ELSE s


(***************************************************************************)
(* Stations, players and the form.                                         *)
(***************************************************************************)
\* The values of the form fields the handlers read (inputs.js getDOMInputs),
\* other than the QRN level and whatever makes the form valid or not.
form ==
  [yourCallsign |-> <<"N", "0", "X">>, yourSpeed |-> 24, yourVolume |-> 80,
   maxStations |-> 2,
   minWait |-> 0, maxWait |-> 1,
   enableFarnsworth |-> FALSE, farnsworthSpeed |-> NULL]

Modes == {"single", "pota", "contest"}
QrnLevels == {"off", "normal", "heavy"}

\* What getCallingStation can draw: callsign, speed, volume (in hundredths of
\* full volume), state and serial number.
Callsigns == {<<"K", "1", "A">>, <<"K", "1", "B">>}
StationWpms == {12}
StationVolumes == {60}
StationStates == {<<"T", "X">>}
SerialNumbers == {<<"0", "7">>}
StationDraws ==
  [callsign : Callsigns, wpm : StationWpms, volume : StationVolumes,
   state : StationStates,
   serialNumber : SerialNumbers]

\* Math.random(), as a number of halves: 0 or 1/2.
RandomDenominator == 2
Randoms == 0..(RandomDenominator - 1)
randomTimes(r, span) == (r * span) \div RandomDenominator

\* What the learner can have typed in the response field (trimmed, upper case).
ResponseTexts ==
  {<<>>, <<"?">>, <<"Q", "R", "S">>, <<"K", "1", "A">>, <<"K", "1", "A", "?">>, <<"1", "A">>, <<"Z", "Z">>}
\* What the learner can have typed in the first info field.
InfoTexts == {<<"T", "X">>}

NoPlayer == [kind |-> "null"]
UndefinedPlayer == [kind |-> "undefined"]
NoStation == [kind |-> "null"]
Free == [kind |-> "free"]

StationIds == 1..(2 * form.maxStations + 1)

\* modes.js modeLogicConfig[mode].showTuStep
showTuStep(mode) == mode # "single"

\* modes.js cqMessage
cqMessage(mode, your) ==
  CASE mode = "single" -> <<"C", "Q", " ", "D", "E", " ">> \o your.callsign \o <<" ", "K">>
    [] mode = "pota" -> <<"C", "Q", " ", "P", "O", "T", "A", " ", "D", "E", " ">> \o your.callsign
    [] mode = "contest" -> <<"C", "Q", " ", "T", "E", "S", "T", " ", "D", "E", " ">> \o your.callsign

\* modes.js yourExchange
yourExchange(mode, your, their) ==
  CASE mode = "single" -> <<"5", "N", "N">>
    [] mode = "pota" -> <<"U", "R", " ", "5", "N", "N", " ", "<", "B", "K", ">">>
    [] mode = "contest" -> <<"5", "N", "N">>

\* modes.js theirExchange
theirExchange(mode, your, their) ==
  CASE mode = "single" -> <<"R", " ", "5", "N", "N", " ", "T", "U">>
    [] mode = "pota" -> <<"<", "B", "K", ">", " ", "U", "R", " ", "5", "N", "N", " ">> \o their.state \o <<" ">>
                        \o their.state \o <<" ", "<", "B", "K", ">">>
    [] mode = "contest" -> <<"5", "N", "N", " ">> \o their.serialNumber \o <<" ", "T", "U">>

\* modes.js yourSignoff
yourSignoff(mode, your, their, arbitrary) ==
  CASE mode = "single" -> <<"T", "U", " ", "E", "E">>
    [] mode = "pota" -> <<"<", "B", "K", ">", " ", "T", "U", " ">> \o arbitrary \o <<" ", "7", "3", " ", "E", "E">>
    [] mode = "contest" -> <<"T", "U", " ">> \o your.callsign

\* modes.js theirSignoff: a function in single and pota mode, null in contest.
hasTheirSignoff(mode) == mode # "contest"
theirSignoff(mode, your, their) == <<"E", "E">>

\* The clock of the context a player was created on: a closed context no
\* longer advances.
contextTime(s, player) ==
  IF player.context.closed THEN player.context.frozen ELSE s.now

\* audio.js createMorsePlayer: undefined when the form does not validate.
\* A volume is a fraction num / den of hundredths of full volume.
\* audio.js createMorsePlayer(station, volumeOverride)
createMorsePlayerAt(s, station, volumeOverride) ==
  IF ~s.inputsValid THEN UndefinedPlayer
  ELSE [kind |-> "player",
        context |-> [closed |-> FALSE, frozen |-> 0],
        tm |-> timingOf(station),
        volume |-> volumeOverride,
        serial |-> station.sessions + 1]

\* history: the station after a createMorsePlayer(station) call, one more
\* oscillator and gain node started for it when the call went through.
started(s, station) ==
  IF ~s.inputsValid THEN station
  ELSE [station EXCEPT !.sessions = @ + 1]

\* audio.js createMorsePlayer(station): volumeOverride is null, and the volume
\* is station.volume.
createMorsePlayer(s, station) ==
  createMorsePlayerAt(s, station, [num |-> station.volume, den |-> 1])

\* stationGenerator.js getYourStation
getYourStation(s) ==
  [kind |-> "station", callsign |-> form.yourCallsign, wpm |-> form.yourSpeed,
   volume |-> form.yourVolume,
   enableFarnsworth |-> FALSE, farnsworthSpeed |-> NULL, player |-> NoPlayer,
   sessions |-> 0]

\* stationGenerator.js getCallingStation, for one draw of its random values.
getCallingStation(s, draw) ==
  [kind |-> "station", callsign |-> draw.callsign, wpm |-> draw.wpm,
   volume |-> draw.volume,
   enableFarnsworth |-> form.enableFarnsworth,
   farnsworthSpeed |-> form.farnsworthSpeed,
   state |-> draw.state, serialNumber |-> draw.serialNumber,
   player |-> NoPlayer, sessions |-> 0]

\* The stations an array of references holds.
SeqRange(q) == {q[i] : i \in 1..Len(q)}

\* The array lastRespondingStations refers to: currentStations itself, or an
\* array of its own.
respondingIds(s) ==
  CASE s.lastRespondingStations.kind = "currentStations" -> s.currentStations
    [] s.lastRespondingStations.kind = "array" -> s.lastRespondingStations.ids
    [] OTHER -> <<>>

referenced(s) ==
  SeqRange(s.currentStations) \cup SeqRange(respondingIds(s))
    \cup (IF s.currentStation = NULL THEN {} ELSE {s.currentStation})

\* A fresh reference for a new station object.
newId(s) == CHOOSE id \in StationIds :
              /\ s.heap[id] = Free
              /\ \A other \in StationIds : s.heap[other] = Free => id <= other

\* Station objects nothing refers to any more are dropped.
collect(s) ==
  [s EXCEPT !.heap = [id \in StationIds |->
                        IF id \in referenced(s) THEN s.heap[id] ELSE Free]]

\* A source node that has been stopped and that nothing refers to is gone; one
\* that was never stopped keeps playing.
release(s) ==
  [s EXCEPT !.sources = [id \in SourceIds |->
                           IF /\ s.sources[id] # NoSource
                              /\ s.sources[id].stopped > 0
                              /\ id # s.backgroundStaticSource
                           THEN NoSource
                           ELSE s.sources[id]]]

(***************************************************************************)
(* Steps of a handler. A step does nothing once the handler has thrown.    *)
(***************************************************************************)
throw(s) == [s EXCEPT !.thrown = TRUE]

\* player.playSentence(sentence, startTime): s.ret is the end time.
play(s, who, player, sentence, startTime) ==
  IF s.thrown THEN s
  ELSE IF player.kind # "player" THEN throw(s)
  ELSE LET endTime == playSentence(player.tm, sentence, startTime)
       IN  [s EXCEPT !.ret = endTime,
                     !.calls = Append(@, [who |-> who, start |-> startTime,
                                          end |-> endTime,
                                          live |-> ~player.context.closed,
                                          volume |-> player.volume,
                                          configured |-> NULL,
                                          active |-> NULL])]

\* history: the playSentence call just made was on the player of station stn;
\* its volume field and the sum of those of currentStations are noted.
RECURSIVE totalOf(_, _, _)
totalOf(s, ids, i) ==
  IF i > Len(ids) THEN 0 ELSE s.heap[ids[i]].volume + totalOf(s, ids, i + 1)

heard(s, stn) ==
  IF s.thrown THEN s
  ELSE [s EXCEPT !.calls[Len(s.calls)] =
                   [@ EXCEPT !.configured = stn.volume,
                             !.active = totalOf(s, s.currentStations, 1)]]

\* updateAudioLock(t) with the end time the last playSentence returned.
lock(s) ==
  IF s.thrown THEN s
  ELSE [s EXCEPT !.audioLockUntil = updateAudioLock(@, s.ret)]


(***************************************************************************)
(* util.js                                                                 *)
(***************************************************************************)
mismatches(a, b, n) == Cardinality({i \in 1..n : a[i] # b[i]})

criterion1(source, query) ==
  /\ Len(query) >= 1 /\ Len(query) <= Len(source)
  /\ \A i \in 1..Len(query) : source[i] = query[i]

criterion2(source, query) ==
  /\ Len(query) >= 2 /\ Len(query) <= Len(source)
  /\ \E i \in 1..(Len(source) - Len(query)) :
       SubSeq(source, i + 1, i + Len(query)) = query

criterion3(source, query) ==
  /\ Len(query) >= 4 /\ Len(query) <= Len(source)
  /\ \E i \in 0..(Len(source) - Len(query)) :
       LET m == mismatches(SubSeq(source, i + 1, i + Len(query)), query, Len(query))
       IN  m <= 1 /\ Len(query) - m >= 3

criterion4(source, query) ==
  /\ Len(source) >= 1 /\ Len(query) > Len(source)
  /\ \A i \in 1..Len(source) : source[i] = query[i]

criterion5(source, query) ==
  /\ Len(query) >= 3
  /\ Len(source) >= Len(query)
  /\ source[1] = query[1] /\ source[2] = query[2]
  /\ mismatches(source, query, Len(query)) <= 1

\* util.js compareStrings
compareStrings(source, query) ==
  IF source = query THEN "perfect"
  ELSE IF \/ criterion1(source, query) \/ criterion2(source, query)
          \/ criterion3(source, query) \/ criterion4(source, query)
          \/ criterion5(source, query)
       THEN "partial"
       ELSE "none"

\* text.includes('?')
includesQuestionMark(text) == \E i \in 1..Len(text) : text[i] = "?"

\* text.replace('?', ''): the text without its first '?'.
removeQuestionMark(text) ==
  IF ~includesQuestionMark(text) THEN text
  ELSE LET k == CHOOSE i \in 1..Len(text) :
                  text[i] = "?" /\ \A j \in 1..(i - 1) : text[j] # "?"
       IN  SubSeq(text, 1, k - 1) \o SubSeq(text, k + 1, Len(text))

\* util.js normalizeStationGain, were the volumes left as they are.
normalizeStationGain_unscaled(s, ids) ==
  [s EXCEPT !.heap = [id \in StationIds |->
                        IF id \in SeqRange(ids)
                        THEN [started(s, s.heap[id]) EXCEPT
                                !.player = createMorsePlayer(s, s.heap[id])]
                        ELSE s.heap[id]]]

\* util.js normalizeStationGain, were a new player dropped when the station
\* has one already.
normalizeStationGain_keepsPlayer(s, ids) ==
  [s EXCEPT !.heap = [id \in StationIds |->
                        IF id \in SeqRange(ids)
                        THEN IF s.heap[id].player.kind = "player"
                             THEN started(s, s.heap[id])
                             ELSE [started(s, s.heap[id]) EXCEPT
                                     !.player =
                                       createMorsePlayer(s, s.heap[id])]
                        ELSE s.heap[id]]]

\* util.js normalizeStationGain: the factor 1 / totalVolume, or 1.
scalingFactor(totalVolume) ==
  IF totalVolume > 100 THEN [num |-> 100, den |-> totalVolume]
  ELSE [num |-> 1, den |-> 1]

\* callingStation.volume * scalingFactor
adjustedVolume(volume, factor) ==
  [num |-> volume * factor.num, den |-> factor.den]

\* util.js normalizeStationGain: a new player for each of the stations, at its
\* adjusted volume.
normalizeStationGain(s, ids) ==
  [s EXCEPT !.heap = [id \in StationIds |->
                        IF id \in SeqRange(ids)
                        THEN [started(s, s.heap[id]) EXCEPT
                                !.player =
                                  createMorsePlayerAt(
                                    s, s.heap[id],
                                    adjustedVolume(
                                      s.heap[id].volume,
                                      scalingFactor(totalOf(s, ids, 1))))]
                        ELSE s.heap[id]]]

RECURSIVE respondFrom(_, _, _, _, _)
\* The wait before a response, were the form's waits taken as they are.
randomDelay_unclamped(minWait, maxWait, r) ==
  minWait * TicksPerSecond + randomTimes(r, maxWait * TicksPerSecond)

\* util.js respondWithAllStations: minDelay + Math.random() * maxDelay, with
\* minWait held between 0 and 2 and maxWait between 0 and 5.
randomDelay(minWait, maxWait, r) ==
  LET minDelay == Max(0, Min(minWait, 2)) * TicksPerSecond
      maxDelay == Max(0, Min(maxWait, 5)) * TicksPerSecond
  IN  minDelay + randomTimes(r, maxDelay)

respondFrom(s, ids, audioLock, rs, i) ==
  IF i > Len(ids) \/ s.thrown THEN s
  ELSE LET stn == s.heap[ids[i]]
       IN  respondFrom(lock(heard(play(s, "them", stn.player, stn.callsign,
                                       audioLock
                                         + randomDelay(form.minWait, form.maxWait, rs[i])),
                                  stn)),
                       ids, audioLock, rs, i + 1)

\* util.js respondWithAllStations; rs are the random numbers it draws.
respondWithAllStations(s, ids, audioLock, rs) ==
  IF s.thrown THEN s
  ELSE IF ~s.inputsValid THEN throw(s)
  ELSE respondFrom(normalizeStationGain(s, ids), ids, audioLock, rs, 1)

RECURSIVE pushStations(_, _, _, _)
pushStations(s, draws, numStations, i) ==
  IF i > numStations \/ s.thrown THEN s
  ELSE IF ~s.inputsValid THEN throw(s)
  ELSE LET id == newId(s)
       IN  pushStations([s EXCEPT !.heap[id] = getCallingStation(s, draws[i]),
                                  !.currentStations = Append(@, id)],
                        draws, numStations, i + 1)

\* util.js weightedRandom(maxStations), rand being the number Math.random()
\* gives, as a fraction: the weights 1 / i are taken as whole multiples of
\* 1 / maxStations!, and rand < cumulative[i] is compared cross-multiplied.
weightedRandom(maxStations, rand) ==
  LET fact[k \in 0..maxStations] == IF k = 0 THEN 1 ELSE k * fact[k - 1]
      cumulative[i \in 0..maxStations] ==
        IF i = 0 THEN 0 ELSE cumulative[i - 1] + (fact[maxStations] \div i)
      totalWeight == cumulative[maxStations]
      hits == {i \in 1..maxStations :
                 rand.num * totalWeight < cumulative[i] * rand.den}
  IN  IF hits # {}
      THEN CHOOSE i \in hits : \A j \in hits : i <= j
      ELSE maxStations

\* addStations, were it to add what the draw says whatever room there is.
addStations_noRoom(s, pick, draws) ==
  IF s.thrown THEN s
  ELSE IF s.inputs = "null" THEN throw(s)
  ELSE IF Len(s.currentStations) < form.maxStations
       THEN pushStations(s, draws, pick, 1)
       ELSE s

\* util.js addStations(currentStations, inputs); pick stands for weightedRandom
\* and draws for the stations getCallingStation generates.
addStations(s, pick, draws) ==
  IF s.thrown THEN s
  ELSE IF s.inputs = "null" THEN throw(s)
  ELSE IF Len(s.currentStations) < form.maxStations
       THEN LET room == form.maxStations - Len(s.currentStations)
                numStations == Min(pick, room)
            IN  pushStations(s, draws, numStations, 1)
       ELSE s


(***************************************************************************)
(* app.js: the handlers.                                                   *)
(***************************************************************************)
\* time = yourStation.player.playSentence(sentence, startTime);
\* updateAudioLock(time)
youSend(s, sentence, startTime) ==
  IF s.thrown THEN s
  ELSE IF s.yourStation.kind = "null" THEN throw(s)
  ELSE lock(play(s, "you", s.yourStation.player, sentence, startTime))

\* time = station.player.playSentence(sentence, startTime);
\* updateAudioLock(time), for the calling station with reference id
theySend(s, id, sentence, startTime) ==
  IF s.thrown THEN s
  ELSE lock(heard(play(s, "them", s.heap[id].player, sentence, startTime),
                  s.heap[id]))

\* The same, delay after the end time of the sentence scheduled last.
youReply(s, sentence, delay) == youSend(s, sentence, s.ret + delay)
theyReply(s, id, sentence, delay) == theySend(s, id, sentence, s.ret + delay)

\* currentStationAttempts++
attempt(s) ==
  IF s.thrown THEN s ELSE [s EXCEPT !.currentStationAttempts = @ + 1]

\* lastRespondingStations = ...
setLastRespondingStations(s, value) ==
  IF s.thrown THEN s ELSE [s EXCEPT !.lastRespondingStations = value]

\* respondWithAllStations(currentStations, audioLock)
respondWithCurrentStations(s, audioLock, rs) ==
  respondWithAllStations(s, s.currentStations, audioLock, rs)

\* app.js nextSingleStation, from currentStation = callingStation on.
callingStationCalls(s, callingStation, responseStartTime, r) ==
  LET id == newId(s)
      s1 == [s EXCEPT !.heap[id] = callingStation,
                      !.currentStation = id,
                      !.currentStationAttempts = 0]
  IN  theySend(s1, id, callingStation.callsign,
               responseStartTime + randomTimes(r, TicksPerSecond)
                 + 1 * TicksPerSecond)

\* app.js nextSingleStation, its last statement.
updateCqButton(s) ==
  IF s.thrown THEN s
  ELSE [s EXCEPT !.cqButtonDisabled =
                   (~showTuStep(s.currentMode) /\ s.currentStation # NULL)]

\* app.js nextSingleStation
nextSingleStation(s, responseStartTime, draw, r) ==
  IF s.thrown THEN s
  ELSE IF ~s.inputsValid THEN throw(s)    \* printStation(undefined)
  ELSE updateCqButton(
         callingStationCalls(
           collect([s EXCEPT !.currentStation = NULL]),
           [started(s, getCallingStation(s, draw)) EXCEPT
              !.player = createMorsePlayer(s, getCallingStation(s, draw))],
           responseStartTime, r))

\* app.js cq, after the learner's CQ call is scheduled.
cqRespond(s, pick, draws, rs) ==
  IF showTuStep(s.currentMode)
  THEN setLastRespondingStations(
         respondWithCurrentStations(addStations(s, pick, draws), s.ret, rs),
         [kind |-> "currentStations"])
  ELSE nextSingleStation([s EXCEPT !.cqButtonDisabled = TRUE],
                         s.ret, draws[1], rs[1])

\* app.js cq, from inputs = getInputs() on.
cqCall(s, backgroundStaticDelay, pick, draws, rs) ==
  IF ~s.inputsValid THEN [s EXCEPT !.inputs = "null"]
  ELSE cqRespond(
         youSend([s EXCEPT !.inputs = "set",
                           !.yourStation =
                             [started(s, getYourStation(s)) EXCEPT
                                !.player = createMorsePlayer(s, getYourStation(s))]],
                 cqMessage(s.currentMode, getYourStation(s)),
                 s.now + backgroundStaticDelay),
         pick, draws, rs)

\* cq after its lock check, without the return while a single-mode station
\* is active.
cqBody_noActiveCheck(s, pick, draws, rs) ==
  IF ~isBackgroundStaticPlaying(s)
  THEN cqCall(createBackgroundStatic(s), 2 * TicksPerSecond, pick, draws, rs)
  ELSE cqCall(s, 0, pick, draws, rs)

\* app.js cq, after its lock check.
cqBody(s, pick, draws, rs) ==
  IF ~showTuStep(s.currentMode) /\ s.currentStation # NULL THEN s
  ELSE IF ~isBackgroundStaticPlaying(s)
       THEN cqCall(createBackgroundStatic(s), 2 * TicksPerSecond, pick, draws, rs)
       ELSE cqCall(s, 0, pick, draws, rs)

\* app.js cq
cq(s, pick, draws, rs) ==
  IF getAudioLock(s.now, s.audioLockUntil) THEN [s EXCEPT !.refused = TRUE]
  ELSE cqBody(s, pick, draws, rs)

\* A QRS request that lowers the character speed as well.
slowDown_lowersWpm(stn) ==
  IF stn.enableFarnsworth
  THEN [stn EXCEPT !.farnsworthSpeed = Max(5, stn.farnsworthSpeed - 4),
                   !.wpm = @ - 4]
  ELSE [stn EXCEPT !.enableFarnsworth = TRUE, !.farnsworthSpeed = stn.wpm - 4,
                   !.wpm = @ - 4]

\* app.js send, the QRS request: the new Farnsworth fields of a station.
slowDown(stn) ==
  IF stn.enableFarnsworth
  THEN [stn EXCEPT !.farnsworthSpeed = Max(5, stn.farnsworthSpeed - 4)]
  ELSE [stn EXCEPT !.enableFarnsworth = TRUE, !.farnsworthSpeed = stn.wpm - 4]

isRepeatRequest(text) ==
  text \in {<<"?">>, <<"A", "G", "N">>, <<"A", "G", "N", "?">>}

\* The 1-based index of the first station whose result is kind, or 0.
firstIndex(results, kind) ==
  IF \E i \in 1..Len(results) : results[i] = kind
  THEN CHOOSE i \in 1..Len(results) :
         results[i] = kind /\ \A j \in 1..(i - 1) : results[j] # kind
  ELSE 0

\* Array.prototype.filter on the stations whose result is kind.
RECURSIVE filterIds(_, _, _, _)
filterIds(ids, results, kind, i) ==
  IF i > Len(ids) THEN <<>>
  ELSE (IF results[i] = kind THEN <<ids[i]>> ELSE <<>>)
         \o filterIds(ids, results, kind, i + 1)

\* app.js send, multi-station branch: lastRespondingStations.forEach(stn => ...)
slowDownStations(s, ids) ==
  [s EXCEPT !.heap = [id \in StationIds |->
                        IF id \in SeqRange(ids) THEN slowDown(s.heap[id])
                        ELSE s.heap[id]]]

\* A perfect match that sets readyForTU and leaves the index as it was.
setReadyForTU_indexKept(s, matchIndex) ==
  IF s.thrown THEN s
  ELSE [s EXCEPT !.readyForTU = TRUE]

\* app.js send, multi-station branch: readyForTU = true; activeStationIndex = ..
setReadyForTU(s, matchIndex) ==
  IF s.thrown THEN s
  ELSE [s EXCEPT !.readyForTU = TRUE, !.activeStationIndex = matchIndex]

\* app.js send, multi-station branch, after the learner's text is scheduled:
\* s.ret is yourResponseTimer.
sendMultiReply(s, text, rs) ==
  IF s.thrown THEN s
  ELSE IF isRepeatRequest(text)
  THEN attempt(setLastRespondingStations(
                 respondWithCurrentStations(s, s.ret, rs),
                 [kind |-> "currentStations"]))
  ELSE IF text = <<"Q", "R", "S">>
  THEN IF s.lastRespondingStations.kind = "null" THEN throw(s)
       ELSE attempt(respondWithAllStations(
                      slowDownStations(s, respondingIds(s)),
                      respondingIds(s), s.ret, rs))
  ELSE
    LET results == [i \in 1..Len(s.currentStations) |->
                      compareStrings(s.heap[s.currentStations[i]].callsign,
                                     removeQuestionMark(text))]
        matchIndex == firstIndex(results, "perfect")
    IN
    IF matchIndex # 0
    THEN IF includesQuestionMark(text)
         THEN attempt(theyReply(s, s.currentStations[matchIndex], <<"R", "R">>,
                                TicksPerSecond \div 4))
         ELSE setReadyForTU(
                attempt(
                  theyReply(
                    youReply(s,
                             <<" ">> \o yourExchange(
                                          s.currentMode, s.yourStation,
                                          s.heap[s.currentStations[matchIndex]]),
                             0),
                    s.currentStations[matchIndex],
                    theirExchange(s.currentMode, s.yourStation,
                                  s.heap[s.currentStations[matchIndex]]),
                    TicksPerSecond \div 2)),
                matchIndex)
    ELSE IF firstIndex(results, "partial") # 0
    THEN attempt(setLastRespondingStations(
                   respondWithAllStations(
                     s, filterIds(s.currentStations, results, "partial", 1),
                     s.ret, rs),
                   [kind |-> "array",
                    ids |-> filterIds(s.currentStations, results, "partial", 1)]))
    ELSE attempt(s)

\* app.js send, the multi-station branch.
sendMulti(s, text, rs) ==
  IF Len(s.currentStations) = 0 THEN s
  ELSE sendMultiReply(
         youSend(s, text, contextTime(s, s.yourStation.player)), text, rs)

\* app.js send, single mode: the station repeats its callsign.
callAgain(s, r) ==
  IF s.thrown THEN s
  ELSE theyReply(s, s.currentStation, s.heap[s.currentStation].callsign,
                 randomTimes(r, TicksPerSecond) + TicksPerSecond \div 4)

\* app.js send, single mode, the QRS request.
slowDownStation(s) ==
  [s EXCEPT !.heap[s.currentStation] =
     [started(s, slowDown(@)) EXCEPT
        !.player = createMorsePlayer(s, slowDown(s.heap[s.currentStation]))]]

\* totalContacts++
countContact(s) ==
  IF s.thrown THEN s ELSE [s EXCEPT !.totalContacts = @ + 1]

\* A JavaScript value, as far as addTableRow tells values apart.
aNumber == [type |-> "number"]
aString == [type |-> "string"]

\* util.js addTableRow(tableName, index, callsign, wpm, attempts, totalTime,
\* extra): a row is inserted at the top and its first four cells are filled;
\* totalTime.toFixed(2) is a TypeError when totalTime is not a number, and
\* then the row keeps four cells and the caller is left.
addTableRow(s, index, callsign, wpm, attempts, totalTime) ==
  IF s.thrown THEN s
  ELSE IF totalTime.type = "number"
  THEN [s EXCEPT !.resultsTable =
                   <<[index |-> index, callsign |-> callsign, cells |-> 5]>> \o @]
  ELSE throw([s EXCEPT !.resultsTable =
                         <<[index |-> index, callsign |-> callsign,
                            cells |-> 4]>> \o @])

\* app.js send and tu: addTableRow('resultsTable', totalContacts,
\* currentStation.callsign, currentStationAttempts, audioContext.currentTime -
\* currentStationStartTime, extraInfo), six arguments for the seven
\* parameters: the elapsed time is taken as attempts and the extra text as
\* totalTime.
addResultRow(s, station) ==
  IF s.thrown THEN s
  ELSE addTableRow(s, s.totalContacts, station.callsign,
                   s.currentStationAttempts, aNumber, aString)

\* app.js send, single mode: nextSingleStation(theirResponseTimer2)
thenNextSingleStation(s, draw, r) == nextSingleStation(s, s.ret, draw, r)

\* app.js send, single mode: the exchange after a confirmed perfect match.
singleExchange(s, draw, r) ==
  thenNextSingleStation(
    addResultRow(countContact(
      theyReply(
        youReply(
          theyReply(
            youReply(s, <<" ">> \o yourExchange(s.currentMode, s.yourStation,
                                                s.heap[s.currentStation]),
                     0),
            s.currentStation,
            theirExchange(s.currentMode, s.yourStation,
                          s.heap[s.currentStation]),
            TicksPerSecond \div 2),
          yourSignoff(s.currentMode, s.yourStation, s.heap[s.currentStation],
                      <<>>),
          TicksPerSecond \div 2),
        s.currentStation,
        theirSignoff(s.currentMode, s.yourStation, s.heap[s.currentStation]),
        TicksPerSecond \div 2)),
      s.heap[s.currentStation]),
    draw, r)

\* app.js send, single mode, after the learner's text is scheduled: s.ret is
\* yourResponseTimer.
sendSingleReply(s, text, draw, rs) ==
  IF s.thrown THEN s
  ELSE IF isRepeatRequest(text) THEN attempt(callAgain(s, rs[1]))
  ELSE IF text = <<"Q", "R", "S">>
  THEN attempt(callAgain(slowDownStation(s), rs[1]))
  ELSE IF compareStrings(s.heap[s.currentStation].callsign,
                         removeQuestionMark(text)) = "perfect"
  THEN IF includesQuestionMark(text)
       THEN theyReply(attempt(s), s.currentStation, <<"R", "R">>,
                      1 * TicksPerSecond)
       ELSE singleExchange(attempt(s), draw, rs[2])
  ELSE callAgain(attempt(s), rs[1])

\* app.js send, the single-mode branch.
sendSingle(s, text, draw, rs) ==
  IF s.currentStation = NULL THEN s
  ELSE sendSingleReply(
         youSend(s, text, contextTime(s, s.yourStation.player)),
         text, draw, rs)

\* app.js send
send(s, text, draw, rs) ==
  IF getAudioLock(s.now, s.audioLockUntil) THEN [s EXCEPT !.refused = TRUE]
  ELSE IF text = <<>> THEN s
  ELSE IF showTuStep(s.currentMode) THEN sendMulti(s, text, rs)
  ELSE sendSingle(s, text, draw, rs)

\* Array.prototype.splice(index, 1), for a 1-based index.
splice(q, index) == SubSeq(q, 1, index - 1) \o SubSeq(q, index + 1, Len(q))

\* app.js tu: the station worked signs off, in the modes that have theirSignoff.
tuTheirSignoff(s, id) ==
  IF s.thrown THEN s
  ELSE IF hasTheirSignoff(s.currentMode)
       THEN theyReply(s, id, theirSignoff(s.currentMode, s.yourStation,
                                          s.heap[id]),
                      TicksPerSecond \div 2)
       ELSE s

\* app.js tu: the worked station is removed from currentStations.
removeWorked(s, index) ==
  IF s.thrown THEN s
  ELSE [s EXCEPT !.currentStations = splice(@, index),
                 !.activeStationIndex = NULL,
                 !.currentStationAttempts = 0,
                 !.readyForTU = FALSE]

\* app.js tu: if (Math.random() < 0.40) addStations(currentStations, inputs)
maybeJoin(s, join, pick, draws) ==
  IF join THEN addStations(s, pick, draws) ELSE s

\* app.js tu, from the removal of the worked station on: s.ret is
\* responseTimerToUse.
tuRespond(s, index, join, pick, draws, rs) ==
  setLastRespondingStations(
    respondWithCurrentStations(
      maybeJoin(removeWorked(s, index), join, pick, draws), s.ret, rs),
    [kind |-> "currentStations"])

\* app.js tu, after its checks.
tuBody(s, infoValue1, join, pick, draws, rs) ==
  IF \/ s.activeStationIndex = NULL
     \/ s.activeStationIndex > Len(s.currentStations)
  THEN throw(countContact(s))                    \* compareExtraInfo(.., undefined)
  ELSE tuRespond(
         addResultRow(
           tuTheirSignoff(
             youSend(countContact(s),
                     yourSignoff(s.currentMode, s.yourStation,
                                 s.heap[s.currentStations[s.activeStationIndex]],
                                 infoValue1),
                     s.now + TicksPerSecond \div 2),
             s.currentStations[s.activeStationIndex]),
           s.heap[s.currentStations[s.activeStationIndex]]),
         s.activeStationIndex, join, pick, draws, rs)

\* app.js tu
tu(s, infoValue1, join, pick, draws, rs) ==
  IF getAudioLock(s.now, s.audioLockUntil) THEN [s EXCEPT !.refused = TRUE]
  ELSE IF ~showTuStep(s.currentMode) \/ ~s.readyForTU THEN s
  ELSE tuBody(s, infoValue1, join, pick, draws, rs)

\* audioContext.close(): the players created on the context keep a closed
\* context, whose clock has stopped.
closed(s, player) ==
  IF player.kind = "player" /\ ~player.context.closed
  THEN [player EXCEPT !.context = [closed |-> TRUE, frozen |-> s.now]]
  ELSE player

closeAudioContext(s) ==
  [s EXCEPT
     !.yourStation = IF @.kind = "null" THEN @
                     ELSE [@ EXCEPT !.player = closed(s, @)],
     !.heap = [id \in StationIds |->
                 IF @[id] = Free THEN Free
                 ELSE [@[id] EXCEPT !.player = closed(s, @)]]]

\* audio.js stopAllAudio
stopAllAudio(s) ==
  stopBackgroundStatic([closeAudioContext(s) EXCEPT !.now = 0,
                                                    !.contexts = @ + 1,
                                                    !.audioLockUntil = 0],
                       FALSE)

\* stop that clears the station and the attempts in every mode.
stop_clearsInEveryMode(s) ==
  [stopAllAudio(s) EXCEPT !.cqButtonDisabled = FALSE,
                          !.currentStation = NULL,
                          !.currentStationAttempts = 0]

\* app.js stop
stop(s) ==
  LET s1 == [stopAllAudio(s) EXCEPT !.cqButtonDisabled = FALSE]
  IN  IF s1.currentMode = "single"
      THEN [s1 EXCEPT !.currentStation = NULL, !.currentStationAttempts = 0]
      ELSE s1

\* currentStations = []: lastRespondingStations keeps the old array.
newCurrentStations(s) ==
  [s EXCEPT !.lastRespondingStations =
              IF @.kind = "currentStations"
              THEN [kind |-> "array", ids |-> s.currentStations]
              ELSE @,
            !.currentStations = <<>>]

\* The variables reset and resetGameState both clear.
cleared(s) ==
  [newCurrentStations(s) EXCEPT !.currentStation = NULL,
                                !.activeStationIndex = NULL,
                                !.readyForTU = FALSE,
                                !.currentStationAttempts = 0,
                                !.totalContacts = 0,
                                !.resultsTable = <<>>]

\* app.js reset
reset(s) ==
  LET s1 == [cleared(s) EXCEPT !.audioLockUntil = updateAudioLock(@, 0)]
  IN  [stopAllAudio(s1) EXCEPT !.cqButtonDisabled = FALSE]

\* app.js resetGameState
resetGameState(s) ==
  LET s1 == stopAllAudio([cleared(s) EXCEPT !.cqButtonDisabled = FALSE])
  IN  [s1 EXCEPT !.audioLockUntil = updateAudioLock(@, 0)]

\* app.js changeMode
changeMode(s, selectedMode) ==
  resetGameState([s EXCEPT !.currentMode = selectedMode])


(***************************************************************************)
(* The state machine.                                                      *)
(***************************************************************************)
InitWith(modes, levels) ==
  /\ now = 0
  /\ contexts = 1
  /\ audioLockUntil = 0
  /\ backgroundStaticSource = NULL
  /\ staticGain = NULL
  /\ fetches = <<>>
  /\ fadeTimers = 0
  /\ sources = [id \in SourceIds |-> NoSource]
  /\ currentMode \in modes
  /\ inputsValid = TRUE
  /\ qrn \in levels
  /\ inputs = "null"
  /\ currentStations = <<>>
  /\ currentStation = NULL
  /\ activeStationIndex = NULL
  /\ readyForTU = FALSE
  /\ currentStationAttempts = 0
  /\ totalContacts = 0
  /\ yourStation = NoStation
  /\ lastRespondingStations = [kind |-> "null"]
  /\ heap = [id \in StationIds |-> Free]
  /\ cqButtonDisabled = FALSE
  /\ resultsTable = <<>>
  /\ lastOp = "load"
  /\ refused = FALSE
  /\ thrown = FALSE
  /\ calls = <<>>
  /\ yourBusyUntil = 0
  /\ elapsed = 0

\* No player is under study.
NotPlayed == [kind |-> "null"]
NoSentence ==
  /\ profile = NoStation
  /\ script = <<>>
  /\ origin = 0
  /\ played = NotPlayed

\* The page as loaded, with the QRN level off.
Init == InitWith(Modes, {"off"}) /\ NoSentence

\* The model's bounds on what a step may leave behind.
Bounded(s) ==
  /\ s.contexts <= MaxContexts
  /\ Len(s.fetches) <= MaxFetches
  /\ s.fadeTimers <= MaxTimers
  /\ s.currentStationAttempts <= MaxAttempts
  /\ s.totalContacts <= MaxContacts

\* history: the latest end of the learner's sentences scheduled since the last
\* stopAllAudio, the calls of the last handler included.
RECURSIVE busyAfter(_, _, _)
busyAfter(busy, cs, i) ==
  IF i > Len(cs) THEN busy
  ELSE busyAfter(IF cs[i].who = "you" THEN Max(busy, cs[i].end)
                 ELSE busy,
                 cs, i + 1)

\* The step to the state s a handler or callback `op` leaves; contextClosed
\* tells that it closed the audio context.
Commit(s0, op, contextClosed) ==
  \E s \in {release(collect(s0))} :
  /\ Bounded(s)
  /\ now' = s.now
  /\ contexts' = s.contexts
  /\ audioLockUntil' = s.audioLockUntil
  /\ backgroundStaticSource' = s.backgroundStaticSource
  /\ staticGain' = s.staticGain
  /\ fetches' = s.fetches
  /\ fadeTimers' = s.fadeTimers
  /\ sources' = s.sources
  /\ currentMode' = s.currentMode
  /\ inputsValid' = s.inputsValid
  /\ qrn' = s.qrn
  /\ inputs' = s.inputs
  /\ currentStations' = s.currentStations
  /\ currentStation' = s.currentStation
  /\ activeStationIndex' = s.activeStationIndex
  /\ readyForTU' = s.readyForTU
  /\ currentStationAttempts' = s.currentStationAttempts
  /\ totalContacts' = s.totalContacts
  /\ yourStation' = s.yourStation
  /\ lastRespondingStations' = s.lastRespondingStations
  /\ heap' = s.heap
  /\ cqButtonDisabled' = s.cqButtonDisabled
  /\ resultsTable' = s.resultsTable
  /\ lastOp' = op
  /\ refused' = s.refused
  /\ thrown' = s.thrown
  /\ calls' = s.calls
  /\ yourBusyUntil' = IF contextClosed THEN 0
                      ELSE busyAfter(yourBusyUntil, s.calls, 1)
  /\ elapsed' = IF op = "tick" THEN elapsed + (s.now - now) ELSE elapsed
  /\ UNCHANGED morseVars

DrawSeqs ==
  {draws \in [1..form.maxStations -> StationDraws] :
     \A i, j \in 1..form.maxStations :
       draws[i].callsign = draws[j].callsign => i = j}
RandomSeqs == {[i \in 1..form.maxStations |-> 0],
               [i \in 1..form.maxStations |-> IF i = 1 THEN 1 ELSE 0]}

\* The values a handler can be given or can draw: those of S where it reads
\* the value, and one of them where it does not.
Inputs(reads, S) ==
  IF getAudioLock(now, audioLockUntil) \/ ~reads THEN {CHOOSE x \in S : TRUE}
  ELSE S

\* A click on the CQ button.
CQ ==
  /\ ~cqButtonDisabled
  /\ \E pick \in Inputs(showTuStep(currentMode), 1..form.maxStations),
        draws \in Inputs(TRUE, DrawSeqs), rs \in Inputs(TRUE, RandomSeqs) :
       Commit(cq(State, pick, draws, rs), "cq", FALSE)

\* A click on the CQ button that one station answers at once.
NoiseCQ ==
  /\ ~cqButtonDisabled
  /\ \E draws \in {CHOOSE d \in DrawSeqs : TRUE} :
       Commit(cq(State, 1, draws, [i \in 1..form.maxStations |-> 0]), "cq", FALSE)

\* A click on the Send button, or Enter in the response field.
Send ==
  \E text \in Inputs(TRUE, ResponseTexts),
     draw \in Inputs(~showTuStep(currentMode) /\ currentStation # NULL,
                     StationDraws),
     rs \in Inputs(IF showTuStep(currentMode) THEN Len(currentStations) > 0
                   ELSE currentStation # NULL,
                   RandomSeqs) :
    Commit(send(State, text, draw, rs), "send", FALSE)

\* A click on the TU button, or Enter in an info field.
TU ==
  \E infoValue1 \in Inputs(readyForTU, InfoTexts),
     join \in Inputs(readyForTU, BOOLEAN),
     pick \in Inputs(readyForTU, 1..form.maxStations),
     draws \in Inputs(readyForTU, DrawSeqs),
     rs \in Inputs(readyForTU, RandomSeqs) :
    Commit(tu(State, infoValue1, join, pick, draws, rs), "tu", FALSE)

\* A click on the stop button.
Stop ==
  /\ contexts < MaxContexts
  /\ Commit(stop(State), "stop", TRUE)

\* A click on the reset button.
Reset ==
  /\ contexts < MaxContexts
  /\ Commit(reset(State), "reset", TRUE)

\* Another mode is selected.
ChangeMode ==
  /\ contexts < MaxContexts
  /\ \E selectedMode \in Modes \ {currentMode} :
       Commit(changeMode(State, selectedMode), "changeMode", TRUE)

\* Another QRN level is selected.
ChangeQrn ==
  \E level \in QrnLevels \ {qrn} :
    Commit(updateStaticIntensity([State EXCEPT !.qrn = level]),
           "updateStaticIntensity", FALSE)

\* Fetch and decode of the static asset succeed for one chain in flight.
FetchComplete ==
  /\ newSource(State) # NULL
  /\ \E i \in 1..Len(fetches) :
       Commit(staticLoaded([State EXCEPT !.fetches = splice(@, i)], fetches[i]),
              "staticLoaded", FALSE)

\* Fetch or decode fails for one chain in flight: the catch callback.
FetchFail ==
  \E i \in 1..Len(fetches) :
    Commit(staticFailed(State, i), "staticFailed", FALSE)

\* The timeout of a pending fade-out stop fires.
FadeTimeout ==
  /\ fadeTimers > 0
  /\ Commit(fadeTimeout(State), "fadeTimeout", FALSE)

\* Time passes, up to the learner's next action: at the first multiple of
\* TickStep at which the lock is over.
TickWithin(horizon) ==
  \E t \in {TickStep * k : k \in 1..(horizon \div TickStep)} :
    /\ t > now /\ t >= audioLockUntil
    /\ \A u \in {TickStep * k : k \in 1..(horizon \div TickStep)} :
         (u > now /\ u >= audioLockUntil) => t <= u
    /\ elapsed + (t - now) <= horizon
    /\ Commit([State EXCEPT !.now = t], "tick", FALSE)

Tick ==
  /\ now <= audioLockUntil
  /\ TickWithin(MaxTime)

NoiseTick ==
  /\ now <= audioLockUntil
  /\ TickWithin(NoiseTime)

\* The handlers with the static switched off.
Next ==
  \/ CQ \/ Send \/ TU \/ Stop \/ Reset \/ ChangeMode \/ Tick

Spec == Init /\ [][Next]_vars

\* The learner edits the form so that it no longer validates (a required field
\* emptied, a minimum raised above its maximum).
EditForm ==
  /\ inputsValid
  /\ Commit([State EXCEPT !.inputsValid = FALSE], "editForm", FALSE)

\* The handlers with a form that the learner edits between them.
FormNext ==
  \/ CQ \/ Send \/ TU \/ Stop \/ EditForm \/ Tick

FormSpec == Init /\ [][FormNext]_vars

\* One session in a mode that is not changed: the single-station mode or a
\* multi-station one, with the handlers, stop and reset.
SessionInit == InitWith({"single", "contest"}, {"off"}) /\ NoSentence

SessionNext ==
  \/ CQ \/ Send \/ TU \/ Stop \/ Reset \/ Tick

SessionSpec == SessionInit /\ [][SessionNext]_vars

\* The static channel: the QRN level is one of the form's, the learner calls CQ
\* and stops, and the callbacks of the channel run when they may.
NoiseInit == InitWith({"contest"}, QrnLevels) /\ NoSentence

NoiseNext ==
  \/ NoiseCQ \/ Stop \/ Reset \/ ChangeQrn
  \/ FetchComplete \/ FetchFail \/ FadeTimeout \/ NoiseTick

NoiseSpec == NoiseInit /\ [][NoiseNext]_vars

\* The loading of the noise asset alone: the CQ that starts it, a change of
\* the QRN level, and the end of a load, well or badly.
LoadNext ==
  \/ NoiseCQ \/ ChangeQrn \/ FetchComplete \/ FetchFail \/ NoiseTick

LoadSpec == NoiseInit /\ [][LoadNext]_vars

\* audioContext.currentTime a step of the clock later, on a context that is
\* suspended and on one that runs.
currentTimeLater_suspended(currentTime) == currentTime
currentTimeLater(currentTime) == currentTime + TickStep

\* The clock of the audio context goes on while the lock is held.
Advance ==
  /\ getAudioLock(now, audioLockUntil)
  /\ Commit([State EXCEPT !.now = currentTimeLater(now)], "tick", FALSE)

\* The learner clicks for the first MaxTime ticks of listening, whether the
\* lock is held or not, and the clock goes on for as long as the lock is held.
LiveNext ==
  \/ elapsed <= MaxTime /\ (CQ \/ Send \/ TU \/ Stop)
  \/ Advance

\* The clock of a running audio context does not stop.
LiveSpec == Init /\ [][LiveNext]_vars /\ WF_vars(Advance)

(***************************************************************************)
(* One Morse player, as the function of its station and of the sentence    *)
(* it is given.                                                            *)
(***************************************************************************)
\* Speeds of the form at which 1.2 / wpm is a whole number of ticks.
Speeds == {12, 20}
\* inputs.farnsworthSpeed || null
FarnsworthSpeeds == {NULL, 3, 8, 40}
\* The stations getCallingStation and getYourStation can give a player, as far
\* as the player reads them.
Profiles ==
  [kind : {"station"}, wpm : Speeds, enableFarnsworth : BOOLEAN,
   farnsworthSpeed : FarnsworthSpeeds]

\* The characters of the sentences: a letter, the word space, the prosign
\* brackets and a character morseCodeMap does not have.
Alphabet == {"A", " ", "<", ">", "#"}
Examples ==
  {<<"E">>, <<"e", "#", "E">>, <<"<", "A", "R", ">">>,
   <<"<", "a", "r", ">", " ", "E">>,
   <<"<", "A", "R", ">", "T", "E", "S", "T">>,
   <<"<", "A", "R", "T", "E", "S", "T">>}
Sentences == UNION {[1..n -> Alphabet] : n \in 0..MaxLen} \cup Examples
StartTimes == {0, 10 * TicksPerSecond}

MorseInit ==
  /\ InitWith({"contest"}, {"off"})
  /\ profile \in Profiles
  /\ script \in Sentences
  /\ origin \in StartTimes
  /\ played = NotPlayed

\* player.playSentence(sentence, startTime) on the player of the station.
PlaySentence ==
  /\ played = NotPlayed
  /\ played' = schedule(timingOf(profile), script, origin)
  /\ UNCHANGED <<profile, script, origin, audioVars, appVars, historyVars>>

\* app.js send, the QRS request: the station is slowed down and gets a new
\* player.
SlowDown ==
  /\ slowDown(profile) # profile
  /\ profile' = slowDown(profile)
  /\ played' = NotPlayed
  /\ UNCHANGED <<script, origin, audioVars, appVars, historyVars>>

MorseNext ==
  \/ PlaySentence \/ SlowDown

MorseSpec == MorseInit /\ [][MorseNext]_vars

(***************************************************************************)
(* The fading (QSB) of one player.  Depths and volumes are in hundredths,  *)
(* fading rates in hundredths of a hertz, phases in quarters of a turn;    *)
(* the sine is taken where it is 0, 1 or -1.                               *)
(***************************************************************************)
QuarterSecond == TicksPerSecond \div 4

\* Math.sin at q quarters of a turn.
sinQuarters(q) ==
  CASE q % 4 = 0 -> 0
    [] q % 4 = 1 -> 1
    [] q % 4 = 2 -> 0
    [] q % 4 = 3 -> -1

\* createMorsePlayer with the QSB flag of the station ignored.
qsbOf_flagIgnored(station, volume, currentTime, random) ==
  [kind |-> "qsb", volume |-> volume, qsb |-> TRUE,
   qsbDepth |-> station.qsbDepth, qsbFrequency |-> station.qsbFrequency,
   stationStartTime |-> currentTime, qsbPhaseOffset |-> random,
   t |-> NULL, amplitude |-> [num |-> 0, den |-> 1]]

\* audio.js createMorsePlayer: the constants qsbAmplitude reads; random is
\* Math.random() in quarters, so that the phase offset is random quarters of a
\* turn. The fields t and amplitude hold the latest qsbAmplitude call, once
\* the kind is "amplitude".
qsbOf(station, volume, currentTime, random) ==
  [kind |-> "qsb", volume |-> volume, qsb |-> station.qsb,
   qsbDepth |-> IF station.qsb THEN station.qsbDepth ELSE 0,
   qsbFrequency |-> IF station.qsb THEN station.qsbFrequency ELSE 0,
   stationStartTime |-> currentTime,
   qsbPhaseOffset |-> IF station.qsb THEN random ELSE 0,
   t |-> NULL, amplitude |-> [num |-> 0, den |-> 1]]

\* audio.js qsbAmplitude with the fade factor left between 0 and 2.
qsbAmplitude_unhalved(session, t) ==
  IF ~session.qsb THEN session.volume
  ELSE LET sineValue ==
             sinQuarters((t - session.stationStartTime) \div QuarterSecond
                           + session.qsbPhaseOffset)
       IN  [num |-> session.volume.num * (100 - session.qsbDepth * (sineValue + 1)),
            den |-> session.volume.den * 100]

\* audio.js qsbAmplitude at a time t a whole number of quarter seconds after
\* stationStartTime: volume * (1 - qsbDepth * (sineValue + 1) / 2).
qsbAmplitude(session, t) ==
  IF ~session.qsb THEN session.volume
  ELSE LET sineValue ==
             sinQuarters((t - session.stationStartTime) \div QuarterSecond
                           + session.qsbPhaseOffset)
       IN  [num |-> session.volume.num * (200 - session.qsbDepth * (sineValue + 1)),
            den |-> session.volume.den * 200]

\* The stations getCallingStation can draw, as far as the fading reads them.
QsbStations ==
  [kind : {"station"}, volume : {60}, qsb : BOOLEAN, qsbDepth : {0, 60, 100},
   qsbFrequency : {25, 50}]
\* The volumeOverride of createMorsePlayer: none, or a normalized volume.
VolumeOverrides == {NULL, 50}
MaxQuarters == 8
SampleTimes(start) == {start + k * QuarterSecond : k \in 0..MaxQuarters}

QsbInit ==
  /\ InitWith({"contest"}, {"off"})
  /\ profile \in QsbStations
  /\ script = <<>>
  /\ origin \in {0, QuarterSecond, TicksPerSecond}
  /\ played = NotPlayed

\* createMorsePlayer(station, volumeOverride) at the time origin.
CreatePlayer ==
  /\ played = NotPlayed
  /\ \E volumeOverride \in VolumeOverrides, random \in 0..3 :
       played' = qsbOf(profile,
                       IF volumeOverride # NULL
                       THEN [num |-> volumeOverride, den |-> 1]
                       ELSE [num |-> profile.volume, den |-> 1],
                       origin, random)
  /\ UNCHANGED <<profile, script, origin, audioVars, appVars, historyVars>>

\* playSymbol asks qsbAmplitude for the amplitude at a time t.
Amplitude ==
  /\ played # NotPlayed
  /\ \E t \in SampleTimes(played.stationStartTime) :
       played' = [played EXCEPT !.kind = "amplitude", !.t = t,
                                !.amplitude = qsbAmplitude(played, t)]
  /\ UNCHANGED <<profile, script, origin, audioVars, appVars, historyVars>>

QsbNext ==
  \/ CreatePlayer \/ Amplitude

QsbSpec == QsbInit /\ [][QsbNext]_vars

(***************************************************************************)
(* The gain events of the symbols of one code, in microseconds.            *)
(***************************************************************************)
MicrosPerSecond == 1000000
\* maxAttackReleaseTime = 0.01
maxAttackReleaseTime == 10000
\* The 0.001 of setValueAtTime(0, time + duration + 0.001)
zeroDelay == 1000

\* Speeds the form can hold at which 1.2 / wpm is a whole number of
\* microseconds: inputs.js puts no limit on a speed.
GainSpeeds == {5, 12, 24, 1200, 2000}
Codes ==
  {<<".">>, <<"-">>, <<".", "-">>, <<"-", ".">>, <<".", ".", "-">>, <<"-", "-", ".">>}
GainStarts == {0, MicrosPerSecond \div 4}

\* CHAR_UNIT = 1.2 / station.wpm
charUnit(wpm) == (12 * MicrosPerSecond) \div (10 * wpm)
\* duration = symbol === '-' ? DASH_TIME : DOT_TIME
durationOf(wpm, symbol) == IF symbol = "-" THEN charUnit(wpm) * 3 ELSE charUnit(wpm)
\* Math.min(duration * 0.1, maxAttackReleaseTime), attack and release alike
attackReleaseTime(duration) == Min(duration \div 10, maxAttackReleaseTime)

\* playSymbol with the zero set at the start of the symbol that follows.
gainEvents_zeroAtNext(duration, time) ==
  <<[at |-> time, gain |-> "minGain", how |-> "set"],
    [at |-> time + attackReleaseTime(duration), gain |-> "symbolVolume", how |-> "ramp"],
    [at |-> time + attackReleaseTime(duration), gain |-> "symbolVolume", how |-> "set"],
    [at |-> time + duration - attackReleaseTime(duration),
     gain |-> "symbolVolume", how |-> "set"],
    [at |-> time + duration, gain |-> "minGain", how |-> "ramp"],
    [at |-> time + duration + duration, gain |-> "zero", how |-> "set"]>>

\* audio.js playSymbol: the six calls on gainNode.gain, in the order made.
gainEvents(duration, time) ==
  <<[at |-> time, gain |-> "minGain", how |-> "set"],
    [at |-> time + attackReleaseTime(duration), gain |-> "symbolVolume", how |-> "ramp"],
    [at |-> time + attackReleaseTime(duration), gain |-> "symbolVolume", how |-> "set"],
    [at |-> time + duration - attackReleaseTime(duration),
     gain |-> "symbolVolume", how |-> "set"],
    [at |-> time + duration, gain |-> "minGain", how |-> "ramp"],
    [at |-> time + duration + zeroDelay, gain |-> "zero", how |-> "set"]>>

GainInit ==
  /\ InitWith({"contest"}, {"off"})
  /\ profile \in [kind : {"station"}, wpm : GainSpeeds]
  /\ script \in Codes
  /\ origin \in GainStarts
  /\ played = NotPlayed

\* audio.js playCode is entered with the code and the start time.
PlayCode ==
  /\ played = NotPlayed
  /\ played' = [kind |-> "gain", index |-> 0, time |-> origin, symbols |-> <<>>]
  /\ UNCHANGED <<profile, script, origin, audioVars, appVars, historyVars>>

\* audio.js playCode, one turn of its loop: time = playSymbol(symbol, time);
\* time += SYMBOL_SPACE.
PlayNextSymbol ==
  /\ played.kind = "gain"
  /\ played.index < Len(script)
  /\ LET duration == durationOf(profile.wpm, script[played.index + 1])
     IN  played' =
           [played EXCEPT
              !.index = @ + 1,
              !.time = @ + duration + charUnit(profile.wpm),
              !.symbols = Append(@, [start |-> played.time,
                                     duration |-> duration,
                                     events |-> gainEvents(duration, played.time)])]
  /\ UNCHANGED <<profile, script, origin, audioVars, appVars, historyVars>>

GainNext ==
  \/ PlayCode \/ PlayNextSymbol

GainSpec == GainInit /\ [][GainNext]_vars

(***************************************************************************)
(* The properties.                                                         *)
(***************************************************************************)
Handlers == {"cq", "send", "tu"}
StopOps == {"stop", "reset", "changeMode"}
NoiseOps == {"updateStaticIntensity", "staticLoaded", "staticFailed",
             "fadeTimeout"}

\* The times the program can pass to updateAudioLock in the state: the ends of
\* the sentences just scheduled, the clock, the end of a fade, the lock itself
\* and its neighbours, and 0.
LockTimes ==
  {0, now, now + TicksPerSecond, audioLockUntil, audioLockUntil + 1}
    \cup (IF audioLockUntil > 0 THEN {audioLockUntil - 1} ELSE {})
    \cup {calls[i].end : i \in 1..Len(calls)}

\* C1: updateAudioLock(t) sets audioLockUntil to max(audioLockUntil, t): the
\* lock never decreases by a call, and a call with a smaller value, 0 included,
\* leaves it unchanged.
C1_updateAudioLockIsMax ==
  \A time \in LockTimes :
    /\ updateAudioLock(audioLockUntil, time) = Max(audioLockUntil, time)
    /\ updateAudioLock(audioLockUntil, time) >= audioLockUntil
    /\ time < audioLockUntil
         => updateAudioLock(audioLockUntil, time) = audioLockUntil

\* A handler has called updateAudioLock with the end of a sentence that ends
\* before one it scheduled earlier, and the lock is the later end.
C1_Witness ==
  /\ lastOp \in Handlers
  /\ \E i, j \in 1..Len(calls) :
       /\ i < j
       /\ calls[j].end < calls[i].end
       /\ audioLockUntil = calls[i].end
       /\ updateAudioLock(calls[i].end, calls[j].end) = audioLockUntil

\* C2: a CQ, Send or TU invoked while the clock is before audioLockUntil makes
\* no playSentence call, creates no player, and leaves the lock, the active
\* stations, readyForTU and the counters as they were.
C2_LockedHandlerDoesNothing ==
  [][(lastOp' \in Handlers /\ now < audioLockUntil)
       => /\ calls' = <<>>
          /\ UNCHANGED <<audioLockUntil, now, contexts, yourStation, heap,
                         currentStations, currentStation, activeStationIndex,
                         readyForTU, currentStationAttempts, totalContacts,
                         lastRespondingStations, fetches, sources>>]_vars

\* A handler has returned at its lock check, while stations were active.
C2_Witness ==
  /\ lastOp \in Handlers
  /\ refused
  /\ now < audioLockUntil
  /\ (Len(currentStations) > 0 \/ currentStation # NULL)

\* C3: when CQ, Send or TU returns, audioLockUntil is at or after the end time
\* of every playSentence call the handler made.
C3_LockCoversEveryCall ==
  lastOp \in Handlers
    => \A i \in 1..Len(calls) : audioLockUntil >= calls[i].end

\* A handler has scheduled three sentences, and the one that ends last is not
\* the one it scheduled last.
C3_Witness ==
  /\ lastOp \in Handlers
  /\ ~thrown
  /\ Len(calls) >= 3
  /\ \E i \in 1..(Len(calls) - 1) : calls[i].end > calls[Len(calls)].end

\* C4: every sentence scheduled on the learner's station starts at or after the
\* end of every sentence scheduled on it earlier, in an earlier handler or in
\* the same one, since the last stop, reset or change of mode.
C4_YourSentencesDoNotOverlap ==
  [][\A i \in 1..Len(calls') :
       calls'[i].who = "you"
         => /\ calls'[i].start >= yourBusyUntil
            /\ \A j \in 1..(i - 1) :
                 calls'[j].who = "you" => calls'[i].start >= calls'[j].end]_vars

\* C5: after stopAllAudio, and so after stop, reset and a change of mode,
\* audioLockUntil is 0.
C5_StopResetsLock ==
  lastOp \in StopOps => audioLockUntil = 0

\* The source nodes that have been started and not stopped.
playingSources ==
  {id \in SourceIds : sources[id] # NoSource /\ sources[id].stopped = 0}

\* C6: after stopAllAudio the static is torn down: isBackgroundStaticPlaying()
\* is false and no source node is still playing.
C6_StopTearsDownStatic ==
  lastOp \in StopOps
    => ~isBackgroundStaticPlaying(State) /\ playingSources = {}

\* C7: the static never touches the lock: its own operations leave
\* audioLockUntil as it was, and stopAllAudio leaves it at the 0 it assigns.
C7_StaticLeavesLockAlone ==
  [][/\ lastOp' \in NoiseOps => audioLockUntil' = audioLockUntil
     /\ lastOp' \in StopOps => audioLockUntil' = 0]_vars

\* C8: at most one source node of the static is started and not stopped.
C8_AtMostOneSourcePlaying ==
  Cardinality(playingSources) <= 1

\* C9: every source node that was started is stopped and disconnected exactly
\* once: none is stopped or disconnected twice, and one that the program no
\* longer refers to has been stopped and disconnected.
C9_SourceReleasedExactlyOnce ==
  \A id \in SourceIds :
    sources[id] # NoSource
      => /\ sources[id].stopped <= 1
         /\ sources[id].disconnected <= 1
         /\ id # backgroundStaticSource
              => sources[id].stopped = 1 /\ sources[id].disconnected = 1

\* C10: a load of the static during which a stop was requested starts no
\* source when it completes.
C10_StopDiscardsLoad ==
  \A id \in SourceIds :
    sources[id] # NoSource => ~sources[id].afterStop

\* The static channel after an instant stop followed by a start, the form
\* showing the level `level`.
restarted(s, level) ==
  release(createBackgroundStatic(
            stopBackgroundStatic([s EXCEPT !.qrn = level], TRUE)))

\* C11: updateStaticIntensity for a newly selected level leaves the static
\* channel (source, gain node, loads in flight, pending timeouts) as an instant
\* stop followed by a start at that level would, from every state of the
\* channel.
C11_IntensityIsStopThenStart ==
  [][lastOp' = "updateStaticIntensity"
       => /\ backgroundStaticSource' = restarted(State, qrn').backgroundStaticSource
          /\ staticGain' = restarted(State, qrn').staticGain
          /\ fetches' = restarted(State, qrn').fetches
          /\ sources' = restarted(State, qrn').sources
          /\ fadeTimers' = restarted(State, qrn').fadeTimers]_vars

\* C12: a CQ, Send or TU invoked while the form does not validate (getInputs
\* gives null) is a silent no-op: it schedules no sentence on any player, leaves
\* audioLockUntil as it was, and no exception escapes it.
C12_NullInputsSilentNoOp ==
  [][(lastOp' \in Handlers /\ ~inputsValid)
       => /\ calls' = <<>>
          /\ audioLockUntil' = audioLockUntil
          /\ ~thrown']_vars

\* The timing constants of the player under study.
timing == timingOf(profile)

\* C13: in playSentence a token morseCodeMap does not have (looked up in lower
\* case) schedules no envelope and leaves the time as it was, console.warn
\* reports it, and the other tokens are scheduled at the times they have
\* without it.
C13_UnknownTokenSkipped ==
  played # NotPlayed =>
    LET tokens == tokenize(script)
        unknown(token) == token # <<" ">> /\ ~recognized(token)
        known(token) == ~unknown(token)
        without == scheduleTokens(timing, SelectSeq(tokens, known), origin)
    IN  /\ \A i \in 1..Len(tokens) :
             unknown(tokens[i]) =>
               \A t \in {origin, played.time} :
                 /\ playToken(timing, tokens[i], t) = t
                 /\ tokenSegments(timing, tokens[i], t) = <<>>
        /\ played.warned = SelectSeq(tokens, unknown)
        /\ played.segments = without.segments
        /\ played.time = without.time

C13_Witness ==
  /\ played # NotPlayed
  /\ script = <<"e", "#", "E">>
  /\ Len(played.warned) = 1
  /\ Len(played.segments) = 2

\* C14: within one playSentence call, on the player of any station the program
\* can create (QRS requests included), the time never decreases and every
\* envelope starts at or after the end of the envelope scheduled before it.
C14_CursorNeverDecreases ==
  played # NotPlayed =>
    /\ \A i \in 2..Len(played.cursors) :
         played.cursors[i] >= played.cursors[i - 1]
    /\ \A i \in 2..Len(played.segments) :
         played.segments[i].start >= played.segments[i - 1].stop

\* The time the claim gives a token: the word space less a letter space for a
\* space, nothing for a token without code, and for a token with code its
\* symbols, a symbol space between them and one letter space.
tokenDuration(tm, token) ==
  IF token = <<" ">> THEN tm.WORD_SPACE - tm.LETTER_SPACE
  ELSE IF ~recognized(token) THEN 0
  ELSE LET code == morseCodeMap[toLowerCase(token)]
           dashes == Cardinality({i \in 1..Len(code) : code[i] = "-"})
           dots == Cardinality({i \in 1..Len(code) : code[i] = "."})
       IN  dashes * tm.DASH_TIME + dots * tm.DOT_TIME
             + (Len(code) - 1) * tm.SYMBOL_SPACE + tm.LETTER_SPACE

sentenceDuration(tm, tokens) ==
  LET sum[i \in 0..Len(tokens)] ==
        IF i = 0 THEN 0 ELSE sum[i - 1] + tokenDuration(tm, tokens[i])
  IN  sum[Len(tokens)]

\* C15: playSentence(text, t0) returns t0 plus the sum of the durations of the
\* tokens of text; so the empty text returns t0, " " returns t0 plus a word
\* space less a letter space, and "E" at 20 wpm without Farnsworth from 10.0 s
\* returns 10.24 s.
C15_SentenceEndIsSumOfTokens ==
  played # NotPlayed =>
    /\ played.time = playSentence(timing, script, origin)
    /\ played.time = origin + sentenceDuration(timing, tokenize(script))
    /\ script = <<>> => played.time = origin
    /\ script = <<" ">> =>
         played.time = origin + timing.WORD_SPACE - timing.LETTER_SPACE
    /\ (/\ script = <<"E">> /\ profile.wpm = 20 /\ ~profile.enableFarnsworth
        /\ origin = 10 * TicksPerSecond)
         => played.time = 1024

C15_Witness ==
  /\ played # NotPlayed
  /\ script = <<"E">> /\ profile.wpm = 20 /\ ~profile.enableFarnsworth
  /\ origin = 10 * TicksPerSecond
  /\ played.time = 1024

\* C16: tokenize scans from left to right: a '<' with a '>' somewhere after it
\* gives one token from that '<' through the first '>' after it; a '<' without
\* a later '>' gives the token '<'; every other character, the space included,
\* gives a token of its own. "<AR>TEST" gives <AR>, T, E, S, T and "<ARTEST"
\* gives <, A, R, T, E, S, T.
C16_TokenizeLeftToRight ==
  played # NotPlayed =>
    LET tokens == played.tokens
        n == Len(tokens)
        startOf[k \in 1..(n + 1)] ==
          IF k = 1 THEN 1 ELSE startOf[k - 1] + Len(tokens[k - 1])
        closes(p) == {q \in (p + 1)..Len(script) : script[q] = ">"}
        first(S) == CHOOSE q \in S : \A r \in S : q <= r
    IN  /\ tokens = tokenize(script)
        /\ startOf[n + 1] = Len(script) + 1
        /\ \A k \in 1..n :
             /\ startOf[k] <= Len(script)
             /\ IF script[startOf[k]] = "<" /\ closes(startOf[k]) # {}
                THEN tokens[k] =
                       SubSeq(script, startOf[k], first(closes(startOf[k])))
                ELSE tokens[k] = <<script[startOf[k]]>>
        /\ script = <<"<", "A", "R", ">", "T", "E", "S", "T">> =>
             tokens = <<(<<"<", "A", "R", ">">>), (<<"T">>), (<<"E">>),
                        (<<"S">>), (<<"T">>)>>
        /\ script = <<"<", "A", "R", "T", "E", "S", "T">> =>
             tokens = <<(<<"<">>), (<<"A">>), (<<"R">>), (<<"T">>), (<<"E">>),
                        (<<"S">>), (<<"T">>)>>

C16_Witness ==
  /\ played # NotPlayed
  /\ script = <<"<", "A", "R", ">", "T", "E", "S", "T">>
  /\ Len(played.tokens) = 5
  /\ played.tokens[1] = <<"<", "A", "R", ">">>

\* C17: for every player, whatever its Farnsworth setting, the dot lasts
\* 1.2 / wpm seconds, the dash exactly three dots, and the space between the
\* symbols of a letter one dot; the envelopes scheduled have these lengths.
C17_SymbolTimesFollowWpm ==
  /\ timing.DOT_TIME * 10 * profile.wpm = 12 * TicksPerSecond
  /\ timing.DASH_TIME = 3 * timing.DOT_TIME
  /\ timing.SYMBOL_SPACE = timing.DOT_TIME
  /\ played # NotPlayed =>
       \A i \in 1..Len(played.segments) :
         played.segments[i].stop - played.segments[i].start
           \in {timing.DOT_TIME, timing.DASH_TIME}

C17_Witness ==
  /\ profile.wpm = 20 /\ profile.enableFarnsworth /\ profile.farnsworthSpeed = 8
  /\ played # NotPlayed
  /\ script = <<"<", "A", "R", ">">>
  /\ played.segments[1] = [start |-> origin, stop |-> origin + 6]
  /\ played.segments[2] = [start |-> origin + 12, stop |-> origin + 30]

\* The timing constants the station of the player has with Farnsworth disabled.
plainTiming == timingOf([profile EXCEPT !.enableFarnsworth = FALSE])

\* C18: with Farnsworth enabled and farnsworthSpeed below wpm, the letter space
\* (3 x 1.2 / farnsworthSpeed) and the word space (7 x 1.2 / farnsworthSpeed)
\* are strictly greater than those the same wpm has with Farnsworth disabled,
\* and dot, dash and symbol space are those of Farnsworth disabled.
C18_FarnsworthStretchesSpacesOnly ==
  (profile.enableFarnsworth /\ farnsworthSpeedOf(profile) < profile.wpm) =>
    /\ timing.LETTER_SPACE = 3 * unitOf(profile.farnsworthSpeed)
    /\ timing.WORD_SPACE = 7 * unitOf(profile.farnsworthSpeed)
    /\ timing.LETTER_SPACE > plainTiming.LETTER_SPACE
    /\ timing.WORD_SPACE > plainTiming.WORD_SPACE
    /\ timing.DOT_TIME = plainTiming.DOT_TIME
    /\ timing.DASH_TIME = plainTiming.DASH_TIME
    /\ timing.SYMBOL_SPACE = plainTiming.SYMBOL_SPACE

C18_Witness ==
  /\ profile.wpm = 20 /\ profile.enableFarnsworth /\ profile.farnsworthSpeed = 8
  /\ timing.LETTER_SPACE = 45 /\ plainTiming.LETTER_SPACE = 18
  /\ timing.WORD_SPACE = 105 /\ plainTiming.WORD_SPACE = 42
  /\ played # NotPlayed
  /\ script = <<"A", " ", "A">>
  /\ played.time = origin + 2 * (6 + 6 + 18) + 45 + 105

\* C19: normalizeStationGain over a set of responding stations gives each
\* station a player whose volume is the station's volume times 1 / total when
\* the total of the stations' volumes is above 1 (100 hundredths), and the
\* station's volume otherwise; so the players' volumes sum to at most 1, and
\* the volume fields of the stations are left as they were. After a CQ in a
\* multi-station mode the players of currentStations have these volumes.
C19_NormalizedVolumes ==
  currentStations # <<>> =>
    LET ids == currentStations
        total == totalOf(State, ids, 1)
        normalized == normalizeStationGain(State, ids)
        volumeOf(id) == normalized.heap[id].player.volume
        sum[i \in 0..Len(ids)] ==
          IF i = 0 THEN 0 ELSE sum[i - 1] + volumeOf(ids[i]).num
    IN  /\ \A id \in SeqRange(ids) :
             /\ IF total > 100
                THEN volumeOf(id).num * total
                       = heap[id].volume * 100 * volumeOf(id).den
                ELSE volumeOf(id).num = heap[id].volume * volumeOf(id).den
             /\ volumeOf(id).den = volumeOf(ids[1]).den
             /\ normalized.heap[id].volume = heap[id].volume
        /\ sum[Len(ids)] <= 100 * volumeOf(ids[1]).den
        /\ (lastOp = "cq" /\ showTuStep(currentMode) /\ ~refused /\ ~thrown)
             => \A id \in SeqRange(ids) : heap[id].player.volume = volumeOf(id)

C19_Witness ==
  /\ lastOp = "cq" /\ ~refused /\ ~thrown
  /\ Len(currentStations) = 2
  /\ \A id \in SeqRange(currentStations) :
       /\ heap[id].volume = 60
       /\ heap[id].player.volume = [num |-> 6000, den |-> 120]

\* Two volumes are the same fraction.
sameVolume(a, b) == a.num * b.den = b.num * a.den

\* C20: in a multi-station mode, whenever a sentence of a calling station is
\* scheduled, the volume of the station's player is the station's volume times
\* the factor normalizeStationGain computes over the stations active at that
\* moment (currentStations).
C20_NoStaleNormalization ==
  (lastOp \in Handlers /\ showTuStep(currentMode)) =>
    \A i \in 1..Len(calls) :
      calls[i].who = "them" =>
        sameVolume(calls[i].volume,
                   adjustedVolume(calls[i].configured,
                                  scalingFactor(calls[i].active)))

\* The station objects the program holds.
stationObjects ==
  {heap[id] : id \in {i \in StationIds : heap[i].kind = "station"}}
    \cup (IF yourStation.kind = "station" THEN {yourStation} ELSE {})

\* The sessions (oscillator and gain node) started for a station that its
\* player field still refers to, by their place among those started for it.
currentSessions(station) ==
  {k \in 1..station.sessions :
     station.player.kind = "player" /\ station.player.serial = k}

\* C21: every station, the learner's included, has at most one session that is
\* not superseded, and it is the one created last for it: each new session
\* created for a station takes the place of the earlier one.
C21_OneSessionPerStation ==
  \A station \in stationObjects :
    /\ Cardinality(currentSessions(station)) <= 1
    /\ station.player.kind = "player" => station.player.serial = station.sessions
    /\ station.sessions > 0 => station.player.kind = "player"

C21_Witness ==
  \E station \in stationObjects :
    /\ station.sessions = 2
    /\ currentSessions(station) = {2}
    /\ lastOp = "send"

\* C22: with QSB disabled for the station, the amplitude computed at any time t
\* is the player's volume (station.volume or the override), whatever qsbDepth
\* and qsbFrequency the station has.
C22_NoFadingWithoutQsb ==
  (played.kind = "amplitude" /\ ~profile.qsb) =>
    /\ played.amplitude.num * played.volume.den
         = played.volume.num * played.amplitude.den
    /\ \A t \in SampleTimes(played.stationStartTime) :
         qsbAmplitude(played, t) = played.volume

C22_Witness ==
  /\ played.kind = "amplitude" /\ ~profile.qsb
  /\ profile.qsbDepth = 100 /\ profile.qsbFrequency = 50
  /\ played.volume = [num |-> 50, den |-> 1]
  /\ played.t = played.stationStartTime + 3 * QuarterSecond
  /\ played.amplitude = [num |-> 50, den |-> 1]

\* C23: with QSB enabled and 0 <= qsbDepth <= 1, the amplitude computed at any
\* time t is at least volume x (1 - qsbDepth) and at most volume.
C23_FadingWithinDepth ==
  (played.kind = "amplitude" /\ profile.qsb) =>
    /\ played.amplitude.num * played.volume.den
         <= played.volume.num * played.amplitude.den
    /\ played.amplitude.num * played.volume.den * 100
         >= played.volume.num * (100 - profile.qsbDepth) * played.amplitude.den

\* The amplitude is at its lowest, volume x (1 - qsbDepth), a quarter of a
\* second after the start of a player with no phase offset.
C23_Witness ==
  /\ played.kind = "amplitude" /\ profile.qsb /\ profile.qsbDepth = 60
  /\ played.qsbPhaseOffset = 0
  /\ played.t = played.stationStartTime + QuarterSecond
  /\ played.volume = [num |-> 60, den |-> 1]
  /\ played.amplitude.num * 100 = 60 * 40 * played.amplitude.den

\* The quarters of a turn 2 pi x qsbFrequency x (t - stationStartTime) makes,
\* times 10000 (the rate is in hundredths of a hertz, the time in ticks).
fadingPhase(session, t) ==
  4 * session.qsbFrequency * (t - session.stationStartTime)

\* C24: with QSB enabled the phase of the fading sine is 2 pi x qsbFrequency x
\* (t - stationStartTime) + qsbPhaseOffset, so that the amplitude at t is
\* volume x (1 - qsbDepth x (sin(phase) + 1) / 2) and the rate of the fading
\* is that of the station; stated at the times where this phase is a whole
\* number of quarters of a turn.
C24_FadingAtStationRate ==
  (/\ played.kind = "amplitude" /\ profile.qsb
   /\ fadingPhase(played, played.t) % 10000 = 0) =>
    sameVolume(
      played.amplitude,
      [num |-> played.volume.num
                 * (200 - played.qsbDepth
                            * (sinQuarters(fadingPhase(played, played.t) \div 10000
                                             + played.qsbPhaseOffset) + 1)),
       den |-> played.volume.den * 200])

\* The step puts a calling station in currentStation that was not there.
stationGenerated ==
  /\ currentStation' # NULL
  /\ \/ currentStation = NULL
     \/ heap'[currentStation'].callsign # heap[currentStation].callsign
     \/ heap'[currentStation'].sessions < heap[currentStation].sessions

\* Single mode has no station array, and while it has a calling station the
\* CQ button is disabled and cq() itself returns without a change.
singleStationOnly ==
  currentMode = "single" =>
    /\ currentStations = <<>>
    /\ currentStation # NULL =>
         /\ cqButtonDisabled
         /\ \A draws \in DrawSeqs, rs \in RandomSeqs :
              [cq(State, 1, draws, rs) EXCEPT !.refused = FALSE] = State

\* C25: in single mode at most one calling station is active; a CQ while one
\* is active is refused; and a calling station is generated only by an accepted
\* CQ (lock free, no active station) or by the Send that completes the contact
\* with the current one.
C25_SingleModeOneStation ==
  /\ []singleStationOnly
  /\ [][(currentMode' = "single" /\ stationGenerated) =>
          \/ /\ lastOp' = "cq"
             /\ ~getAudioLock(now, audioLockUntil)
             /\ currentStation = NULL
          \/ /\ lastOp' = "send"
             /\ ~getAudioLock(now, audioLockUntil)
             /\ currentStation # NULL
             /\ totalContacts' = totalContacts + 1]_vars

\* An accepted CQ in single mode has put a calling station in place: the
\* learner's call and then the station's are scheduled, and the CQ button is
\* disabled.
C25_Witness ==
  /\ currentMode = "single"
  /\ lastOp = "cq"
  /\ ~refused
  /\ currentStation # NULL
  /\ cqButtonDisabled
  /\ \E i, j \in 1..Len(calls) :
       /\ calls[i].who = "you"
       /\ calls[j].who # "you"
       /\ calls[j].start >= calls[i].end

\* C26: when the fetch or the decoding of the noise asset fails, the noise
\* channel is as it was (not playing when it was not playing), no error
\* reaches the page, no tone is scheduled or changed and the lock stays; and
\* a start request after the failure, with the channel not playing and a QRN
\* level selected, starts a load again.
C26_LoadFailureContained ==
  /\ [][lastOp' = "staticFailed" =>
          /\ ~thrown'
          /\ calls' = <<>>
          /\ Len(fetches') = Len(fetches) - 1
          /\ isBackgroundStaticPlaying(State)' = isBackgroundStaticPlaying(State)
          /\ UNCHANGED <<backgroundStaticSource, staticGain, sources, fadeTimers,
                         audioLockUntil, now, contexts, yourStation, heap,
                         currentStations, lastRespondingStations,
                         yourBusyUntil>>]_vars
  /\ [](lastOp = "staticFailed" /\ ~isBackgroundStaticPlaying(State)
          /\ qrn # "off" /\ inputsValid
        => createBackgroundStatic(State).fetches
             = Append(fetches, [qrn |-> qrn, stopRequested |-> FALSE]))

\* A load has failed while the learner's CQ was scheduled and the lock held;
\* the channel is not playing.
C26_Witness ==
  /\ lastOp = "staticFailed"
  /\ ~isBackgroundStaticPlaying(State)
  /\ qrn # "off"
  /\ now < audioLockUntil
  /\ yourStation # NoStation
  /\ Len(createBackgroundStatic(State).fetches) = Len(fetches) + 1

\* The stations a QRS request is for: lastRespondingStations in the modes with
\* a station array, currentStation in single mode.
qrsStations ==
  IF showTuStep(currentMode) THEN SeqRange(respondingIds(State))
  ELSE {currentStation}

\* send() would go through to its QRS branch.
qrsAccepted ==
  /\ ~getAudioLock(now, audioLockUntil)
  /\ IF showTuStep(currentMode)
     THEN Len(currentStations) > 0 /\ lastRespondingStations.kind # "null"
     ELSE currentStation # NULL

\* The state send() leaves for the text QRS, whatever the random delays.
afterQrs(rs) ==
  send(State, <<"Q", "R", "S">>, CHOOSE draw \in StationDraws : TRUE, rs)

\* C27: a QRS request changes, of the station objects, only the Farnsworth
\* fields of the stations that responded last, and gives each of those a new
\* player (one more session) whose gaps are those of the new fields; no other
\* station and no player made before the request is changed (what they have
\* scheduled stays as it was), and the sentences the request schedules for the
\* slowed stations are timed with the new gaps.
C27_QrsSlowsLastResponders ==
  qrsAccepted =>
    \A rs \in RandomSeqs :
      LET r == afterQrs(rs)
      IN
      /\ ~r.thrown
      /\ r.yourStation = yourStation
      /\ \A id \in StationIds :
           IF id \in qrsStations
           THEN /\ r.heap[id].enableFarnsworth
                /\ r.heap[id].farnsworthSpeed = slowDown(heap[id]).farnsworthSpeed
                /\ [r.heap[id] EXCEPT
                      !.enableFarnsworth = heap[id].enableFarnsworth,
                      !.farnsworthSpeed = heap[id].farnsworthSpeed,
                      !.player = heap[id].player,
                      !.sessions = heap[id].sessions] = heap[id]
                /\ r.heap[id].sessions = heap[id].sessions + 1
                /\ r.heap[id].player.serial = r.heap[id].sessions
                /\ r.heap[id].player.tm = timingOf(r.heap[id])
           ELSE r.heap[id] = heap[id]
      /\ \A i \in 1..Len(r.calls) :
           r.calls[i].who # "you" =>
                \E id \in qrsStations :
                  r.calls[i].end = playSentence(timingOf(r.heap[id]),
                                                heap[id].callsign,
                                                r.calls[i].start)

\* A QRS request has gone through: a station that answered has a second
\* session and the Farnsworth gaps of 4 wpm below its speed, and its callsign
\* takes longer than at its old timing.
C27_Witness ==
  /\ lastOp = "send"
  /\ \E id \in StationIds :
       /\ heap[id] # Free
       /\ heap[id].enableFarnsworth
       /\ heap[id].farnsworthSpeed = heap[id].wpm - 4
       /\ heap[id].sessions >= 2
       /\ \E i \in 1..Len(calls) :
            /\ calls[i].who # "you"
            /\ calls[i].end = playSentence(timingOf(heap[id]), heap[id].callsign,
                                           calls[i].start)
            /\ calls[i].end > playSentence(
                                timingOf([heap[id] EXCEPT !.enableFarnsworth = FALSE]),
                                heap[id].callsign, calls[i].start)

\* C28: in single mode an accepted Send that completes the contact (its text
\* is the active station's callsign: totalContacts goes up) schedules the
\* learner's text, both exchanges and both sign-offs in that order, counts
\* exactly one contact, adds one complete results row, and ends with another
\* station in place whose call starts after the last sign-off ends.
C28_SingleContactCompletes ==
  [][(currentMode = "single" /\ lastOp' = "send"
        /\ totalContacts' # totalContacts) =>
       /\ totalContacts' = totalContacts + 1
       /\ Len(resultsTable') = Len(resultsTable) + 1
       /\ resultsTable'[1].cells = 5
       /\ ~thrown'
       /\ Len(calls') = 6
       /\ \A i \in 1..(Len(calls') - 1) : calls'[i].end <= calls'[i + 1].start
       /\ currentStation' # NULL
       /\ heap'[currentStation'].sessions = 1
       /\ currentStationAttempts' = 0]_vars

\* C29: an accepted TU (a mode with a station array, readyForTU, lock free)
\* counts exactly one contact, adds one complete results row, removes the
\* worked station from currentStations, and leaves readyForTU false,
\* activeStationIndex null and the attempt counter 0, so that a TU right
\* after it does nothing.
C29_TuFinalizesContact ==
  [][(lastOp' = "tu" /\ showTuStep(currentMode) /\ readyForTU
        /\ ~getAudioLock(now, audioLockUntil)) =>
       /\ totalContacts' = totalContacts + 1
       /\ Len(resultsTable') = Len(resultsTable) + 1
       /\ resultsTable'[1].cells = 5
       /\ ~thrown'
       /\ ~readyForTU'
       /\ activeStationIndex' = NULL
       /\ currentStationAttempts' = 0
       /\ activeStationIndex # NULL
            => currentStations[activeStationIndex] \notin SeqRange(currentStations')]_vars

\* The text is a callsign of currentStations, sent without a question mark.
perfectConfirmed(text) ==
  /\ ~isRepeatRequest(text)
  /\ text # <<"Q", "R", "S">>
  /\ ~includesQuestionMark(text)
  /\ \E i \in 1..Len(currentStations) :
       compareStrings(heap[currentStations[i]].callsign, text) = "perfect"

\* C30: after an accepted Send in a mode with a station array, readyForTU is
\* true exactly when the text was a perfect, confirmed callsign match: after a
\* repeat request, a QRS, a perfect match with a question mark, a partial match
\* or no match it is false.
C30_ReadyOnlyAfterPerfectMatch ==
  (/\ showTuStep(currentMode)
   /\ ~getAudioLock(now, audioLockUntil)
   /\ Len(currentStations) > 0) =>
    \A text \in ResponseTexts \ {<<>>}, rs \in RandomSeqs :
      LET r == send(State, text, CHOOSE draw \in StationDraws : TRUE, rs)
      IN  ~r.thrown => (r.readyForTU <=> perfectConfirmed(text))

\* C31: whenever the lock is held, the clock going on, it is over at some
\* later time: audioLockUntil is a time the clock reaches, and CQ, Send and TU
\* go through again.
C31_LockEnds ==
  getAudioLock(now, audioLockUntil) ~> ~getAudioLock(now, audioLockUntil)

\* The clock has gone past a lock that a handler had set, and a handler has
\* gone through again and scheduled a sentence.
C31_Witness ==
  /\ lastOp \in Handlers
  /\ ~refused
  /\ calls # <<>>
  /\ elapsed > 0
  /\ contexts = 1

\* The symbols scheduled so far, when a code is being played.
scheduledSymbols == IF played.kind = "gain" THEN played.symbols ELSE <<>>

\* The events of a symbol are in the order t <= t+a <= t+d-r <= t+d < t+d+1ms
\* with a = r = min(0.1 d, 10 ms), and the last sets the gain to zero.
eventsInOrder(symbol) ==
  LET e == symbol.events
      t == symbol.start
      d == symbol.duration
      a == Min(d \div 10, 10 * 1000)
  IN  /\ e[1].at = t /\ e[2].at = t + a /\ e[3].at = t + a
      /\ e[4].at = t + d - a /\ e[5].at = t + d /\ e[6].at = t + d + 1000
      /\ e[1].at <= e[2].at /\ e[3].at <= e[4].at /\ e[4].at <= e[5].at
      /\ e[5].at < e[6].at
      /\ e[6].gain = "zero" /\ e[6].how = "set"

\* The zero of each symbol is not later than the start of the next one.
silentBetweenSymbols ==
  \A i \in 1..(Len(scheduledSymbols) - 1) :
    scheduledSymbols[i].events[6].at <= scheduledSymbols[i + 1].start

C34_CallsOnCurrentContext ==
  lastOp \in Handlers => \A i \in 1..Len(calls) : calls[i].live

\* C35: a QRS request only slows a station down: for a station with wpm >= 1
\* and Farnsworth speed >= 1, the inter-letter and inter-word gaps after the
\* QRS are positive and not shorter than they were before it.
C35_QrsOnlySlowsDown ==
  [][(profile' = slowDown(profile) /\ profile' # profile
        /\ profile.wpm >= 1 /\ farnsworthSpeedOf(profile) >= 1)
       => /\ timingOf(profile').LETTER_SPACE > 0
          /\ timingOf(profile').WORD_SPACE > 0
          /\ timingOf(profile').LETTER_SPACE >= timingOf(profile).LETTER_SPACE
          /\ timingOf(profile').WORD_SPACE >= timingOf(profile).WORD_SPACE]_vars

\* What the form's minWait and maxWait fields can hold.
WaitValues == {-3, 0, 1, 2, 5, 7}

\* C36: within one action every station's transmission is scheduled to start
\* at or after the end of the learner's transmissions made before it, and the
\* wait respondWithAllStations adds is never negative, whatever minWait and
\* maxWait the form holds.
C36_ResponsesFollowLearner ==
  /\ \A minWait \in WaitValues, maxWait \in WaitValues, r \in Randoms :
       randomDelay(minWait, maxWait, r) >= 0
  /\ lastOp \in Handlers =>
       \A i \in 1..Len(calls), j \in 1..Len(calls) :
         (j < i /\ calls[j].who = "you" /\ calls[i].who = "them")
           => calls[i].start >= calls[j].end

C36_Witness ==
  /\ lastOp = "send" /\ ~refused
  /\ \E i \in 1..Len(calls), j \in 1..Len(calls) :
       /\ j < i /\ calls[j].who = "you" /\ calls[i].who = "them"
       /\ calls[i].start > calls[j].end
  /\ \E i \in 1..Len(calls), j \in 1..Len(calls) :
       i # j /\ calls[i].who = "them" /\ calls[j].who = "them"

\* C37: the timeout callback of a fade-out stop releases only the source that
\* was fading: a source started since (by a change of level or by a start
\* that completed) is the current one after the callback and is not stopped.
C37_FadeTimeoutSparesNewSource ==
  [][(lastOp' = "fadeTimeout" /\ backgroundStaticSource # NULL
        /\ ~sources[backgroundStaticSource].fading)
       => /\ backgroundStaticSource' = backgroundStaticSource
          /\ sources'[backgroundStaticSource] = sources[backgroundStaticSource]]_vars

\* C38: in a multi-station mode, readyForTU true implies that
\* activeStationIndex is an index of an active station.
C38_ReadyForTuHasActiveStation ==
  (showTuStep(currentMode) /\ readyForTU)
    => /\ activeStationIndex # NULL
       /\ activeStationIndex \in 1..Len(currentStations)

C38_Witness ==
  /\ showTuStep(currentMode) /\ readyForTU
  /\ lastOp = "send" /\ ~refused
  /\ Len(currentStations) = 2 /\ activeStationIndex = 2

\* What Math.random() can give, in eighths.
RandomFractions == {[num |-> k, den |-> 8] : k \in 0..7}

\* The numbers weightedRandom can return when there is room for `room`
\* stations.
weightedPicks(room) == {weightedRandom(room, rand) : rand \in RandomFractions}

\* C39: with maxStations fixed, the number of active stations never exceeds
\* it: when there is room, weightedRandom returns, and addStations adds,
\* between 1 and maxStations - current stations, and at the maximum addStations
\* adds none.
C39_NeverMoreThanMaxStations ==
  /\ Len(currentStations) <= form.maxStations
  /\ \A room \in 1..(form.maxStations + 1) :
       weightedPicks(room) = {Min(pick, room) : pick \in 1..(form.maxStations + 1)}
  /\ showTuStep(currentMode) =>
       \A pick \in 1..form.maxStations :
         LET after == addStations(State, pick, CHOOSE d \in DrawSeqs : TRUE)
             added == Len(after.currentStations) - Len(currentStations)
             room == form.maxStations - Len(currentStations)
         IN  ~after.thrown =>
               IF room > 0 THEN added = Min(pick, room) /\ added \in 1..room
               ELSE added = 0

C39_Witness ==
  /\ lastOp = "cq" /\ ~refused /\ ~thrown
  /\ showTuStep(currentMode)
  /\ Len(currentStations) = form.maxStations
  /\ \E id \in SeqRange(currentStations) : heap[id].sessions > 1

\* tokens.join(''): the tokens one after the other.
joined(tokens) ==
  LET upTo[k \in 0..Len(tokens)] ==
        IF k = 0 THEN <<>> ELSE upTo[k - 1] \o tokens[k]
  IN  upTo[Len(tokens)]

\* C40: tokenize loses and invents nothing: the tokens of a sentence, one after
\* the other, are the sentence, and there are at most as many of them (one per
\* turn of the loop) as the sentence has characters.
C40_TokensRebuildSentence ==
  /\ joined(tokenize(script)) = script
  /\ Len(tokenize(script)) <= Len(script)
  /\ \A k \in 1..Len(tokenize(script)) : Len(tokenize(script)[k]) >= 1
  /\ played # NotPlayed => joined(played.tokens) = script

C40_Witness ==
  /\ played # NotPlayed
  /\ script = <<"<", "a", "r", ">", " ", "E">>
  /\ played.tokens = <<(<<"<", "a", "r", ">">>), (<<" ">>), (<<"E">>)>>

=============================================================================
